---- MODULE Spec2Model ----
(***************************************************************************)
(* Model of FnCtxt (rustc_typeck/src/check/fn_ctxt_impl.rs): the per-body  *)
(* type-checking context.  The fields of FnCtxt are the variables; every   *)
(* method is an operator from a context record to a context record, and an *)
(* action applies one method to the current context.                       *)
(***************************************************************************)
EXTENDS Integers, Sequences, FiniteSets, TLC

\* ---------------------------------------------------------------- bounds
NumStoreNodes == 3
MaxAdjLen == 2
NumVars == 3
MaxArgs == 3
MaxStmts == 2

\* ----------------------------------------------------------------- types
\* Ty<'tcx>: the types the modelled bodies mention.  "&err" is a reference
\* type whose referent is the error type, "&i32" one whose referent is not.
ty_error == "err"
RefTys == {"&err", "&i32"}
BaseTys == {"i32", "f64", "unit", "never", "bool", "err"}
Ty == BaseTys \cup RefTys
referent(ty) == IF ty = "&err" THEN "err" ELSE "i32"
\* ty::Int(_) | ty::Uint(_), ty::Float(_) and the other kinds check_lit and
\* the variadic whitelist tell apart
IntTys == {"i8", "i16", "i32", "i64", "isize"}
UintTys == {"u8", "u16", "u32", "usize"}
FloatTys == {"f32", "f64"}
PtrLikeTys == {"*i32", "FnDef", "FnPtr"}
\* ty::Tuple, by arity; every field of the modelled tuple types is an i32
TupleNames == <<"unit", "(i32,)", "(i32,i32)", "(i32,i32,i32)",
                "(i32,i32,i32,i32)", "(i32,i32,i32,i32,i32)">>
TupleTy(k) == TupleNames[k + 1]
is_tuple(ty) == \E k \in 0..(Len(TupleNames) - 1) : TupleTy(k) = ty
tuple_fields(ty) ==
    LET k == CHOOSE n \in 0..(Len(TupleNames) - 1) : TupleTy(n) = ty
    IN  [i \in 1..k |-> "i32"]
\* str, [T], dyn Trait
UnsizedTys == {"str"}
\* the opaque type (impl Trait) an inference variable may stand for
OpaqueTy == "Opaque"

\* ty::Infer(_): the inference variables, by their index
Vars == 1..NumVars
VarNames == <<"?1", "?2", "?3", "?4", "?5", "?6", "?7", "?8">>
InferTy(v) == VarNames[v]
InferTys == {InferTy(v) : v \in Vars}
is_ty_infer(ty) == ty \in InferTys
vid(ty) == CHOOSE v \in Vars : InferTy(v) = ty
\* the value of a variable nothing was unified with
Unresolved == "unresolved"

\* TypeFoldable::references_error: the type is, or contains, the error type.
references_error(ty) ==
    \/ ty = ty_error
    \/ ty \in RefTys /\ referent(ty) = ty_error

\* hir::HirId of the nodes of the body; the first NumStoreNodes of them are
\* the ones the Result Store operations are applied to directly.
Largest(S) == CHOOSE n \in S : \A m \in S : m <= n
NumNodes == Largest({NumStoreNodes, MaxArgs + 1, 4 * MaxStmts + 2})
Nodes == 1..NumNodes
\* DefId of the closures of the body
ClosureIds == 1..2
StoreNodes == 1..NumStoreNodes
\* node_types().get(id) == None
NoTy == "none"

\* locals.get(&nid) == None, and LocalTy { decl_ty, revealed_ty }
NoLocal == [decl_ty |-> NoTy, revealed_ty |-> NoTy]
LocalTy(decl_ty, revealed_ty) == [decl_ty |-> decl_ty, revealed_ty |-> revealed_ty]
\* enclosing_breakables.by_id.get(&id) == None
NoIndex == -1
\* the node of the block of the body, which its breaks name
BlockId == 1
\* Span: the byte positions lo..hi of the source; NoSpan is Option::None
Span(lo, hi) == [lo |-> lo, hi |-> hi]
NoSpan == [lo |-> 0, hi |-> 0]

\* Adjust: the kinds of one step of an adjustment chain.
AdjustKinds == {"NeverToAny", "Deref", "BorrowRef", "BorrowRefMut",
                "BorrowRawPtr", "Pointer"}
\* Adjust::Borrow(AutoBorrow::Ref(..)), of either mutability
IsBorrowRef(k) == k \in {"BorrowRef", "BorrowRefMut"}
\* Vec<Adjustment>: the chains of at most MaxAdjLen steps
AdjChains == UNION {[1..k -> AdjustKinds] : k \in 0..MaxAdjLen}
\* the expression whose adjustments are followed
AdjExprs == {1}
\* Entry::Vacant of the adjustments table
Vacant == [occupied |-> FALSE, chain |-> <<>>]
Occupied(adj) == [occupied |-> TRUE, chain |-> adj]

VARIABLES
    node_types,         \* typeck_results.node_types: HirId -> Ty
    has_errors,         \* FnCtxt::has_errors
    tainted_by_errors,  \* InferCtxt::tainted_by_errors_flag
    adjustments,        \* typeck_results.adjustments: HirId -> Vec<Adjustment>
    mutable_derefs,     \* expressions given to convert_place_derefs_to_mutable
    diverges,           \* FnCtxt::diverges: Maybe, Always or WarnedAlways
    locals,             \* FnCtxt::locals: HirId -> LocalTy
    enclosing_breakables, \* FnCtxt::enclosing_breakables: stack and by_id
    ps,                 \* FnCtxt::ps: the unsafety state
    trace,              \* what the operation in progress emitted and called, in order
    var_kind,           \* infcx: "unused", or IntVar / FloatVar / TyVar
    var_value,          \* infcx unification tables: the type a variable is bound to
    var_diverges,       \* infcx: the type variables created as diverging
    opaque_types_vars,  \* FnCtxt::opaque_types_vars: variable -> opaque type
    never_type_fallback,\* #![feature(never_type_fallback)]
    debug_assertions,   \* the build has debug assertions on
    breakable_frames,   \* calls of with_breakable_ctxt whose f has not returned
    fulfillment_cx,     \* FnCtxt::fulfillment_cx: the pending obligations
    type_dependent_defs, \* typeck_results.type_dependent_defs: node -> resolution
    retyped,            \* history: a write replaced the recorded type of a node by another error-free type
    deferred_cast_checks, \* FnCtxt::deferred_cast_checks: the casts to check, in order
    deferred_generator_interiors, \* FnCtxt::deferred_generator_interiors, in order
    deferred_call_resolutions, \* FnCtxt::deferred_call_resolutions: closure -> resolutions
    aborted,            \* a bug!/span_bug! was hit: checking of the body died
    last                \* the operation applied last, its inputs and result

vars == <<node_types, has_errors, tainted_by_errors, adjustments,
          mutable_derefs, diverges, locals, enclosing_breakables, ps, trace,
          var_kind, var_value, var_diverges,
          opaque_types_vars, never_type_fallback, debug_assertions,
          breakable_frames, fulfillment_cx, type_dependent_defs, retyped,
          deferred_cast_checks, deferred_generator_interiors,
          deferred_call_resolutions, aborted, last>>

\* The FnCtxt as one value, as the methods (&self) see it, with the calls of
\* with_breakable_ctxt in progress.
fcx == [node_types |-> node_types, has_errors |-> has_errors,
        tainted_by_errors |-> tainted_by_errors, adjustments |-> adjustments,
        mutable_derefs |-> mutable_derefs, diverges |-> diverges,
        locals |-> locals, enclosing_breakables |-> enclosing_breakables,
        ps |-> ps,
        trace |-> trace, var_kind |-> var_kind,
        var_value |-> var_value, var_diverges |-> var_diverges,
        opaque_types_vars |-> opaque_types_vars,
        never_type_fallback |-> never_type_fallback,
        debug_assertions |-> debug_assertions,
        breakable_frames |-> breakable_frames,
        fulfillment_cx |-> fulfillment_cx,
        type_dependent_defs |-> type_dependent_defs,
        retyped |-> retyped,
        deferred_cast_checks |-> deferred_cast_checks,
        deferred_generator_interiors |-> deferred_generator_interiors,
        deferred_call_resolutions |-> deferred_call_resolutions,
        aborted |-> aborted]

Commit(c) ==
    /\ node_types' = c.node_types
    /\ has_errors' = c.has_errors
    /\ tainted_by_errors' = c.tainted_by_errors
    /\ adjustments' = c.adjustments
    /\ mutable_derefs' = c.mutable_derefs
    /\ diverges' = c.diverges
    /\ locals' = c.locals
    /\ enclosing_breakables' = c.enclosing_breakables
    /\ ps' = c.ps
    /\ trace' = c.trace
    /\ var_kind' = c.var_kind
    /\ var_value' = c.var_value
    /\ var_diverges' = c.var_diverges
    /\ opaque_types_vars' = c.opaque_types_vars
    /\ never_type_fallback' = c.never_type_fallback
    /\ debug_assertions' = c.debug_assertions
    /\ breakable_frames' = c.breakable_frames
    /\ fulfillment_cx' = c.fulfillment_cx
    /\ type_dependent_defs' = c.type_dependent_defs
    /\ retyped' = c.retyped
    /\ deferred_cast_checks' = c.deferred_cast_checks
    /\ deferred_generator_interiors' = c.deferred_generator_interiors
    /\ deferred_call_resolutions' = c.deferred_call_resolutions
    /\ aborted' = c.aborted

\* bug!(..): the compiler aborts; nothing else of the context is touched.
bug(c) == [c EXCEPT !.aborted = TRUE]

\* ---------------------------------------------------------- Result Store
set_tainted_by_errors(c) == [c EXCEPT !.tainted_by_errors = TRUE]
is_tainted_by_errors(c) == c.tainted_by_errors

\* write_ty that sets has_errors and not the taint of the body
write_ty_has_errors_only(c, id, ty) ==
    IF references_error(ty)
    THEN [c EXCEPT !.node_types[id] = ty, !.has_errors = TRUE]
    ELSE [c EXCEPT !.node_types[id] = ty]

\* write_ty without the references_error branch
write_ty_untainted(c, id, ty) == [c EXCEPT !.node_types[id] = ty]

write_ty(c, id, ty) ==
    LET c1 == [c EXCEPT !.node_types[id] = ty,
                        !.retyped = \/ @
                                          \/ /\ c.node_types[id] # NoTy
                                             /\ c.node_types[id] # ty
                                             /\ ~references_error(ty)]
    IN  IF references_error(ty)
        THEN set_tainted_by_errors([c1 EXCEPT !.has_errors = TRUE])
        ELSE c1

\* The value node_ty returns; "ICE" stands for the bug! arm.
ICE == "ICE"
\* node_ty whose missing-type arm does not consult the taint flag
node_ty_always_err(c, id) ==
    IF c.node_types[id] # NoTy THEN c.node_types[id] ELSE ty_error

node_ty(c, id) ==
    IF c.node_types[id] # NoTy THEN c.node_types[id]
    ELSE IF is_tainted_by_errors(c) THEN ty_error
    ELSE ICE

\* ----------------------------------------------------------- adjustments
convert_place_derefs_to_mutable(c, expr) ==
    [c EXCEPT !.mutable_derefs = @ \cup {expr}]

\* adj.iter().any(|adj| matches!(adj, Borrow(Ref(_, Mut {..}))))
autoborrow_mut(adj) == \E i \in 1..Len(adj) : adj[i] = "BorrowRefMut"

\* the arm (&[NeverToAny], _)
never_to_any_shape(old, adj) == old = <<"NeverToAny">>

\* the arm below with the two slices exchanged
reborrow_then_deref_shape_swapped(old, adj) ==
    /\ Len(old) >= 1 /\ old[1] = "Deref"
    /\ Len(adj) = 2 /\ adj[1] = "Deref" /\ IsBorrowRef(adj[2])

\* the arm (&[Deref, Borrow(Ref)], &[Deref, ..])
reborrow_then_deref_shape(old, adj) ==
    /\ Len(old) = 2 /\ old[1] = "Deref" /\ IsBorrowRef(old[2])
    /\ Len(adj) >= 1 /\ adj[1] = "Deref"

\* apply_adjustments without the early return of the NeverToAny arm
apply_adjustments_no_return(c, expr, adj) ==
    IF adj = <<>> THEN c
    ELSE LET entry == c.adjustments[expr]
             c1 == [c EXCEPT !.adjustments[expr] = Occupied(adj)]
             done == IF autoborrow_mut(adj)
                     THEN convert_place_derefs_to_mutable(c1, expr) ELSE c1
         IN  IF ~entry.occupied THEN done
             ELSE IF never_to_any_shape(entry.chain, adj) THEN done
             ELSE IF reborrow_then_deref_shape(entry.chain, adj) THEN done
             ELSE bug(c)

\* apply_adjustments whose last arm overwrites instead of calling bug!
apply_adjustments_lenient(c, expr, adj) ==
    IF adj = <<>> THEN c
    ELSE LET entry == c.adjustments[expr]
             c1 == [c EXCEPT !.adjustments[expr] = Occupied(adj)]
             done == IF autoborrow_mut(adj)
                     THEN convert_place_derefs_to_mutable(c1, expr) ELSE c1
         IN  IF ~entry.occupied THEN done
             ELSE IF never_to_any_shape(entry.chain, adj) THEN c
             ELSE done

apply_adjustments(c, expr, adj) ==
    IF adj = <<>> THEN c
    ELSE LET entry == c.adjustments[expr]
             c1 == [c EXCEPT !.adjustments[expr] = Occupied(adj)]
             done == IF autoborrow_mut(adj)
                     THEN convert_place_derefs_to_mutable(c1, expr) ELSE c1
         IN  IF ~entry.occupied THEN done
             ELSE IF never_to_any_shape(entry.chain, adj) THEN c
             ELSE IF reborrow_then_deref_shape(entry.chain, adj) THEN done
             ELSE bug(c)

\* ---------------------------------------------------- inference variables
\* infcx.next_int_var / next_float_var / next_ty_var / next_diverging_ty_var:
\* a fresh variable of the given kind; the result is the context and the type.
has_fresh_var(c) == \E v \in Vars : c.var_kind[v] = "unused"
fresh_var(c) == CHOOSE v \in Vars :
    c.var_kind[v] = "unused" /\ \A w \in Vars : w < v => c.var_kind[w] # "unused"
next_var(c, kind, diverging) ==
    LET v == fresh_var(c)
    IN  [c |-> [c EXCEPT !.var_kind[v] = kind,
                         !.var_diverges = IF diverging THEN @ \cup {v} ELSE @],
         ty |-> InferTy(v)]
next_int_var(c) == next_var(c, "IntVar", FALSE)
next_float_var(c) == next_var(c, "FloatVar", FALSE)

\* infcx.type_is_unconstrained_numeric
type_is_unconstrained_numeric(c, ty) ==
    LET v == vid(ty)
    IN  IF c.var_kind[v] = "IntVar" /\ c.var_value[v] = Unresolved
        THEN "UnconstrainedInt"
        ELSE IF c.var_kind[v] = "FloatVar" /\ c.var_value[v] = Unresolved
        THEN "UnconstrainedFloat"
        ELSE "Neither"

\* infcx.type_var_diverges
type_var_diverges(c, ty) ==
    c.var_kind[vid(ty)] = "TyVar" /\ vid(ty) \in c.var_diverges

\* tcx.mk_diverging_default
mk_diverging_default(c) == IF c.never_type_fallback THEN "never" ELSE "unit"

\* demand_eqtype(span, ty, fallback) on an unresolved variable binds it.
demand_eqtype_var(c, ty, to) == [c EXCEPT !.var_value[vid(ty)] = to]

\* --------------------------------------------------------------- fallback
FallbackModes == {"NoOpaque", "All"}
\* no fallback: the `return false` arms
NoFallback == "no_fallback"

\* the match of fallback_if_possible with the numeric arms before the taint arm
fallback_numeric_first(c, ty, mode) ==
    LET numeric == type_is_unconstrained_numeric(c, ty)
    IN  IF numeric = "UnconstrainedInt" THEN "i32"
        ELSE IF numeric = "UnconstrainedFloat" THEN "f64"
        ELSE IF is_tainted_by_errors(c) THEN ty_error
        ELSE IF type_var_diverges(c, ty) THEN mk_diverging_default(c)
        ELSE IF mode = "All" /\ c.opaque_types_vars[vid(ty)] # NoTy
        THEN c.opaque_types_vars[vid(ty)]
        ELSE NoFallback

\* the match of fallback_if_possible with the opaque type tried before the
\* diverging default
fallback_opaque_first(c, ty, mode) ==
    LET numeric == type_is_unconstrained_numeric(c, ty)
    IN  IF is_tainted_by_errors(c) THEN ty_error
        ELSE IF numeric = "UnconstrainedInt" THEN "i32"
        ELSE IF numeric = "UnconstrainedFloat" THEN "f64"
        ELSE IF mode = "All" /\ c.opaque_types_vars[vid(ty)] # NoTy
        THEN c.opaque_types_vars[vid(ty)]
        ELSE IF type_var_diverges(c, ty) THEN mk_diverging_default(c)
        ELSE NoFallback

\* the match of fallback_if_possible with the two numeric defaults exchanged
fallback_numeric_swapped(c, ty, mode) ==
    LET numeric == type_is_unconstrained_numeric(c, ty)
    IN  IF is_tainted_by_errors(c) THEN ty_error
        ELSE IF numeric = "UnconstrainedInt" THEN "f64"
        ELSE IF numeric = "UnconstrainedFloat" THEN "i32"
        ELSE IF type_var_diverges(c, ty) THEN mk_diverging_default(c)
        ELSE IF mode = "All" /\ c.opaque_types_vars[vid(ty)] # NoTy
        THEN c.opaque_types_vars[vid(ty)]
        ELSE NoFallback

\* let fallback = match self.type_is_unconstrained_numeric(ty) { .. }
fallback(c, ty, mode) ==
    LET numeric == type_is_unconstrained_numeric(c, ty)
    IN  IF is_tainted_by_errors(c) THEN ty_error
        ELSE IF numeric = "UnconstrainedInt" THEN "i32"
        ELSE IF numeric = "UnconstrainedFloat" THEN "f64"
        ELSE IF type_var_diverges(c, ty) THEN mk_diverging_default(c)
        ELSE IF mode = "All" /\ c.opaque_types_vars[vid(ty)] # NoTy
        THEN c.opaque_types_vars[vid(ty)]
        ELSE NoFallback

\* The result is the context and the returned bool.
fallback_if_possible(c, ty, mode) ==
    IF ~is_ty_infer(ty) THEN [c |-> bug(c), ret |-> FALSE]
    ELSE LET fb == fallback(c, ty, mode)
         IN  IF fb = NoFallback THEN [c |-> c, ret |-> FALSE]
             ELSE [c |-> demand_eqtype_var(c, ty, fb), ret |-> TRUE]

\* ------------------------------------------------------------- check_lit
\* ast::LitKind, with the suffix of a suffixed numeric literal
LitKinds == {"Str", "ByteStr", "Byte", "Char", "Int_i64", "Uint_u16",
             "IntUnsuffixed", "Float_f32", "FloatUnsuffixed", "Bool", "Err"}
\* Expectation: NoExpectation, ExpectHasType(ty), ExpectRvalueLikeUnsized(ty)
NoExpectation == [kind |-> "NoExpectation", ty |-> NoTy]
ExpectHasType(ty) == [kind |-> "ExpectHasType", ty |-> ty]
rvalue_hint(ty) ==
    IF ty \in UnsizedTys THEN [kind |-> "ExpectRvalueLikeUnsized", ty |-> ty]
    ELSE ExpectHasType(ty)
\* shallow resolution of a type through the unification tables
RECURSIVE resolve_vars_if_possible(_, _)
resolve_vars_if_possible(c, ty) ==
    IF is_ty_infer(ty) /\ c.var_value[vid(ty)] # Unresolved
    THEN resolve_vars_if_possible(c, c.var_value[vid(ty)]) ELSE ty
\* expected.to_option(self), NoTy for None
to_option(c, expected) ==
    IF expected.kind = "NoExpectation" THEN NoTy
    ELSE resolve_vars_if_possible(c, expected.ty)
\* expected.only_has_type(self), NoTy for None
only_has_type(c, expected) ==
    IF expected.kind = "ExpectHasType"
    THEN resolve_vars_if_possible(c, expected.ty) ELSE NoTy

\* the expected type an unsuffixed integer literal takes over, if any
int_lit_hint(ty) ==
    IF ty \in IntTys \cup UintTys THEN ty
    ELSE IF ty = "char" THEN "u8"
    ELSE IF ty \in PtrLikeTys THEN "usize"
    ELSE NoTy

float_lit_hint(ty) ==
    IF ty \in FloatTys THEN ty ELSE NoTy

\* The result is the context and the literal's type.
check_lit(c, lit, expected) ==
    CASE lit = "Str" -> [c |-> c, ty |-> "&str"]
      [] lit = "ByteStr" -> [c |-> c, ty |-> "&[u8]"]
      [] lit = "Byte" -> [c |-> c, ty |-> "u8"]
      [] lit = "Char" -> [c |-> c, ty |-> "char"]
      [] lit = "Int_i64" -> [c |-> c, ty |-> "i64"]
      [] lit = "Uint_u16" -> [c |-> c, ty |-> "u16"]
      [] lit = "IntUnsuffixed" ->
            IF int_lit_hint(to_option(c, expected)) # NoTy
            THEN [c |-> c, ty |-> int_lit_hint(to_option(c, expected))]
            ELSE next_int_var(c)
      [] lit = "Float_f32" -> [c |-> c, ty |-> "f32"]
      [] lit = "FloatUnsuffixed" ->
            IF float_lit_hint(to_option(c, expected)) # NoTy
            THEN [c |-> c, ty |-> float_lit_hint(to_option(c, expected))]
            ELSE next_float_var(c)
      [] lit = "Bool" -> [c |-> c, ty |-> "bool"]
      [] lit = "Err" -> [c |-> c, ty |-> ty_error]

\* ------------------------------------------------- divergence, diagnostics
\* Diverges: Maybe < Always < WarnedAlways, and its BitOr (the maximum)
DivergesRank(d) == CASE d = "Maybe" -> 0 [] d = "Always" -> 1
                     [] d = "WarnedAlways" -> 2
diverges_or(a, b) == IF DivergesRank(a) >= DivergesRank(b) THEN a ELSE b
\* Diverges::is_always: Always or WarnedAlways
is_always(d) == DivergesRank(d) >= DivergesRank("Always")

\* `let x = e; k`: e is evaluated, then the rest of the function with x
Bind(e, K(_)) == K(e)

\* one more entry of the trace: a diagnostic, a lint or a call to a collaborator
emit(c, e) == [c EXCEPT !.trace = Append(@, e)]
diag(code, id) == [ev |-> "diag", code |-> code, id |-> id]
\* the codes of param_count_error
ArityCodes == {"E0057", "E0060", "E0061"}

\* warn_if_unreachable that leaves the state at Always after the warning
warn_if_unreachable_at_keeps_always(c, id, kind, desugared) ==
    IF c.diverges = "Always" /\ ~desugared
    THEN emit(c, [ev |-> "lint_unreachable", id |-> id, kind |-> kind])
    ELSE c

\* warn_if_unreachable(id, span, kind).  desugared: the span comes from the
\* desugaring of a condition or of an async block, or the span of the origin
\* of the divergence from the desugaring of an await.
warn_if_unreachable_at(c, id, kind, desugared) ==
    IF c.diverges = "Always" /\ ~desugared
    THEN emit([c EXCEPT !.diverges = "WarnedAlways"],
              [ev |-> "lint_unreachable", id |-> id, kind |-> kind])
    ELSE c

\* the statements and expressions of the bodies checked here are written in
\* the source, none is a desugaring
warn_if_unreachable(c, id, kind) == warn_if_unreachable_at(c, id, kind, FALSE)

\* An obligation, with what the Obligation Engine will find of it: it
\* holds, it fails, or the engine cannot decide it.
Verdicts == {"holds", "fails", "ambiguous"}
register_predicate(c, obligation) ==
    [c EXCEPT !.fulfillment_cx = Append(@, obligation)]
\* fulfillment_cx.select_where_possible: the obligations decided leave the
\* pending ones, the failed ones are the errors
select_where_possible(c) ==
    [c |-> [c EXCEPT !.fulfillment_cx =
                SelectSeq(@, LAMBDA o : o.verdict = "ambiguous")],
     errors |-> SelectSeq(c.fulfillment_cx, LAMBDA o : o.verdict = "fails")]
\* fulfillment_cx.select_all_or_error: every obligation not proved is an error
select_all_or_error(c) ==
    [c |-> [c EXCEPT !.fulfillment_cx = <<>>],
     errors |-> SelectSeq(c.fulfillment_cx, LAMBDA o : o.verdict # "holds")]
RECURSIVE report_fulfillment_errors(_, _, _)
report_fulfillment_errors(c, errors, i) ==
    IF i > Len(errors) THEN c
    ELSE report_fulfillment_errors(
             emit(c, [ev |-> "diag", code |-> "E0277", id |-> 0,
                      obligation |-> errors[i]]),
             errors, i + 1)

\* select_obligations_where_possible reporting whatever is not proved yet
select_obligations_or_error_where_possible(c) ==
    Bind(select_where_possible(emit(c, [ev |-> "select_where_possible"])),
    LAMBDA result :
        report_fulfillment_errors(
            result.c,
            SelectSeq(c.fulfillment_cx, LAMBDA o : o.verdict # "holds"), 1))

select_obligations_where_possible(c) ==
    Bind(select_where_possible(emit(c, [ev |-> "select_where_possible"])),
    LAMBDA result :
        IF result.errors # <<>>
        THEN report_fulfillment_errors(result.c, result.errors, 1)
        ELSE result.c)

select_all_obligations_or_error(c) ==
    Bind(select_all_or_error(emit(c, [ev |-> "select_all_or_error"])),
    LAMBDA result :
        IF result.errors # <<>>
        THEN report_fulfillment_errors(result.c, result.errors, 1)
        ELSE result.c)

\* WF obligations never themselves fail
register_wf_obligation(c, ty) ==
    emit(register_predicate(c, [pred |-> "WellFormed", ty |-> ty,
                                verdict |-> "holds"]),
         [ev |-> "register_wf", ty |-> ty])

\* ------------------------------------------------------- deferred work
\* record_deferred_call_resolution(closure_def_id, r)
record_deferred_call_resolution(c, closure_def_id, r) ==
    [c EXCEPT !.deferred_call_resolutions[closure_def_id] = Append(@, r)]

\* remove_deferred_call_resolutions that leaves the entry of the closure
remove_deferred_call_resolutions_keeps(c, closure_def_id) ==
    [c |-> c, ret |-> c.deferred_call_resolutions[closure_def_id]]

\* remove_deferred_call_resolutions(closure_def_id): a closure without an
\* entry has the empty list.  The result is the context and the list.
remove_deferred_call_resolutions(c, closure_def_id) ==
    [c |-> [c EXCEPT !.deferred_call_resolutions[closure_def_id] = <<>>],
     ret |-> c.deferred_call_resolutions[closure_def_id]]

\* for cast in deferred_cast_checks.drain(..) { cast.check(self) }
RECURSIVE check_each_cast(_, _, _)
check_each_cast(c, casts, i) ==
    IF i > Len(casts) THEN c
    ELSE check_each_cast(emit(c, [ev |-> "cast_check", item |-> casts[i]]),
                         casts, i + 1)
check_casts(c) ==
    check_each_cast([c EXCEPT !.deferred_cast_checks = <<>>],
                    c.deferred_cast_checks, 1)

\* for (body_id, interior, kind) in generators.drain(..) { .. }
RECURSIVE resolve_each_interior(_, _, _)
resolve_each_interior(c, generators, i) ==
    IF i > Len(generators) THEN c
    ELSE resolve_each_interior(
             emit(select_obligations_where_possible(c),
                  [ev |-> "resolve_interior", item |-> generators[i]]),
             generators, i + 1)
resolve_generator_interiors(c) ==
    resolve_each_interior([c EXCEPT !.deferred_generator_interiors = <<>>],
                          c.deferred_generator_interiors, 1)

resolve_vars_with_obligations(c, ty) ==
    IF ~is_ty_infer(ty) THEN [c |-> c, ty |-> ty]
    ELSE IF ~is_ty_infer(resolve_vars_if_possible(c, ty))
    THEN [c |-> c, ty |-> resolve_vars_if_possible(c, ty)]
    ELSE [c |-> select_obligations_where_possible(c),
          ty |-> resolve_vars_if_possible(c, ty)]

\* ------------------------------------------------------------ expressions
\* hir::Expr: the node and what kind of expression it is.
\*   IntLit: an unsuffixed integer literal   Closure: a closure literal
\*   Return: an expression of type !         F32: a path to a local of type f32
\*   Unit: the expression ()                 Break: break 'a, out of the block
\*   Err: hir::ExprKind::Err, what is left of an expression that did not parse
\* Call arguments are of the kinds ExprKinds; the others occur in blocks.
ExprKinds == {"IntLit", "Closure", "Return", "F32"}
Expr(id, kind) == [id |-> id, kind |-> kind]
is_closure(arg) == arg.kind = "Closure"

\* is_ty_var: a general type variable, not an integer or float one
is_ty_var(c, ty) == is_ty_infer(ty) /\ c.var_kind[vid(ty)] = "TyVar"

\* Unification of two resolved types: the context and whether it succeeded.
\* A general variable takes any type; an integer (float) variable takes an
\* integer (float) type or another integer (float) variable.
numeric_var_accepts(c, v, ty) ==
    \/ is_ty_infer(ty) /\ c.var_kind[vid(ty)] = c.var_kind[vid(v)]
    \/ c.var_kind[vid(v)] = "IntVar" /\ ty \in IntTys \cup UintTys
    \/ c.var_kind[vid(v)] = "FloatVar" /\ ty \in FloatTys

unify(c, a0, b0) ==
    LET a == resolve_vars_if_possible(c, a0)
        b == resolve_vars_if_possible(c, b0)
    IN  IF a = b THEN [c |-> c, ok |-> TRUE]
        ELSE IF is_ty_var(c, a) THEN [c |-> demand_eqtype_var(c, a, b), ok |-> TRUE]
        ELSE IF is_ty_var(c, b) THEN [c |-> demand_eqtype_var(c, b, a), ok |-> TRUE]
        ELSE IF is_ty_infer(a) /\ numeric_var_accepts(c, a, b)
        THEN [c |-> demand_eqtype_var(c, a, b), ok |-> TRUE]
        ELSE IF is_ty_infer(b) /\ numeric_var_accepts(c, b, a)
        THEN [c |-> demand_eqtype_var(c, b, a), ok |-> TRUE]
        ELSE [c |-> c, ok |-> FALSE]

\* try_coerce(expr, expr_ty, target): error types and ! coerce to anything
\* (! with a NeverToAny adjustment), a closure coerces to a fn pointer, and
\* otherwise the two types are unified.
try_coerce(c, id, expr_ty, target) ==
    LET a == resolve_vars_if_possible(c, expr_ty)
        b == resolve_vars_if_possible(c, target)
    IN  IF references_error(a) \/ references_error(b)
        THEN [c |-> c, ok |-> TRUE]
        ELSE IF a = "never"
        THEN [c |-> apply_adjustments(
                      IF is_ty_var(c, b)
                      THEN [c EXCEPT !.var_diverges = @ \cup {vid(b)}] ELSE c,
                      id, <<"NeverToAny">>),
              ok |-> TRUE]
        ELSE IF a = "closure" /\ b = "FnPtr"
        THEN [c |-> apply_adjustments(c, id, <<"Pointer">>), ok |-> TRUE]
        ELSE unify(c, a, b)

\* demand_coerce(expr, checked_ty, expected): a failed coercion is reported
\* as a type mismatch; the result is the context and the coerced type.
demand_coerce(c, e, checked_ty, expected) ==
    LET r == try_coerce(c, e.id, checked_ty, expected)
    IN  [c |-> IF r.ok THEN r.c ELSE emit(r.c, diag("E0308", e.id)),
         ty |-> IF r.ok /\ references_error(
                             resolve_vars_if_possible(c, checked_ty))
                THEN ty_error ELSE expected]

\* demand_suptype(sp, expected, actual) and demand_eqtype(sp, expected, actual)
demand_suptype(c, id, expected, actual) ==
    LET a == resolve_vars_if_possible(c, actual)
        b == resolve_vars_if_possible(c, expected)
    IN  IF references_error(a) \/ references_error(b) THEN c
        ELSE IF unify(c, a, b).ok THEN unify(c, a, b).c
        ELSE emit(c, diag("E0308", id))

demand_eqtype(c, id, expected, actual) == demand_suptype(c, id, expected, actual)

\* The result is the context and the resolved type.
\* structurally_resolved_type that reports E0282 in a tainted body too
structurally_resolved_type_always_reports(c, id, ty0) ==
    LET r == resolve_vars_with_obligations(c, ty0)
    IN  IF ~is_ty_var(r.c, r.ty) THEN r
        ELSE [c |-> demand_eqtype_var(emit(r.c, diag("E0282", id)),
                                      r.ty, ty_error),
              ty |-> ty_error]

structurally_resolved_type(c, id, ty0) ==
    LET r == resolve_vars_with_obligations(c, ty0)
    IN  IF ~is_ty_var(r.c, r.ty) THEN r
        ELSE LET c1 == IF ~is_tainted_by_errors(r.c)
                       THEN emit(r.c, diag("E0282", id)) ELSE r.c
             IN  [c |-> demand_eqtype_var(c1, r.ty, ty_error), ty |-> ty_error]

\* ----------------------------------------------------------- CoerceMany
\* CoerceMany::new / with_coercion_sites, merged_ty, coerce, coerce_forced_unit
\* and complete: the accumulator the tail and the breaks of a block feed.
CoerceMany_new(expected_ty) ==
    [expected_ty |-> expected_ty, final_ty |-> NoTy, pushed |-> 0]
merged_ty(coerce) ==
    IF coerce.final_ty # NoTy THEN coerce.final_ty ELSE coerce.expected_ty

\* can_sub(param_env, a, b): would a be a subtype of b (nothing is bound)
can_sub(c, a, b) ==
    \/ references_error(resolve_vars_if_possible(c, a))
    \/ references_error(resolve_vars_if_possible(c, b))
    \/ unify(c, a, b).ok

\* The result is the context and the accumulator.  has_expr is FALSE for
\* coerce_forced_unit; hint is what its augment_error callback adds.
coerce_inner(c, coerce, id, has_expr, expression_ty0, hint) ==
    Bind(IF is_ty_var(c, expression_ty0)
         THEN resolve_vars_with_obligations(c, expression_ty0)
         ELSE [c |-> c, ty |-> expression_ty0],
    LAMBDA r :
    Bind(merged_ty(coerce),
    LAMBDA target :
        IF \/ references_error(r.ty)
           \/ references_error(resolve_vars_if_possible(r.c, target))
        THEN [c |-> r.c, coerce |-> [coerce EXCEPT !.final_ty = ty_error]]
        ELSE
        Bind(IF has_expr THEN try_coerce(r.c, id, r.ty, target)
             ELSE unify(r.c, r.ty, target),
        LAMBDA res :
            IF res.ok
            THEN [c |-> res.c,
                  coerce |-> [coerce EXCEPT
                                !.final_ty = IF has_expr THEN target ELSE r.ty,
                                !.pushed = @ + 1]]
            ELSE [c |-> emit(res.c, [ev |-> "diag", code |-> "E0308",
                                     id |-> id, remove_semicolon |-> hint]),
                  coerce |-> [coerce EXCEPT !.final_ty = ty_error]])))

CoerceMany_complete(coerce) ==
    IF coerce.final_ty # NoTy THEN coerce.final_ty ELSE "never"

\* ------------------------------------------------------ breakable contexts
\* with_breakable_ctxt recording every id at the bottom of the stack
with_breakable_ctxt_enter_outermost(c, id, ctxt) ==
    [c EXCEPT !.enclosing_breakables =
        [stack |-> Append(@.stack, ctxt),
         by_id |-> [@.by_id EXCEPT ![id] = 0]]]

\* with_breakable_ctxt up to the call of f: the context is pushed
with_breakable_ctxt_enter(c, id, ctxt) ==
    [c EXCEPT !.enclosing_breakables =
        [stack |-> Append(@.stack, ctxt),
         by_id |-> [@.by_id EXCEPT ![id] = Len(c.enclosing_breakables.stack)]]]

\* with_breakable_ctxt returning the outermost context
with_breakable_ctxt_exit_outermost(c, id, index) ==
    [c |-> [c EXCEPT !.enclosing_breakables =
                [stack |-> SubSeq(@.stack, 2, Len(@.stack)),
                 by_id |-> [@.by_id EXCEPT ![id] = NoIndex]]],
     ctxt |-> c.enclosing_breakables.stack[1]]

\* with_breakable_ctxt once f returned, index being the length of the stack
\* on entry: the context and the popped ctxt.  A stack of another length
\* than index + 1 fails the debug_assert! of a build with debug assertions.
NoCtxt == [coerce |-> CoerceMany_new(NoTy), may_break |-> FALSE]
with_breakable_ctxt_exit(c, id, index) ==
    IF c.debug_assertions /\ Len(c.enclosing_breakables.stack) # index + 1
    THEN [c |-> bug(c), ctxt |-> NoCtxt]
    ELSE IF c.enclosing_breakables.by_id[id] = NoIndex
    THEN [c |-> bug(c), ctxt |-> NoCtxt]
    ELSE IF c.enclosing_breakables.stack = <<>>
    THEN [c |-> bug(c), ctxt |-> NoCtxt]
    ELSE [c |-> [c EXCEPT !.enclosing_breakables =
                    [stack |-> SubSeq(@.stack, 1, Len(@.stack) - 1),
                     by_id |-> [@.by_id EXCEPT ![id] = NoIndex]]],
          ctxt |-> c.enclosing_breakables.stack[
                        Len(c.enclosing_breakables.stack)]]

\* enclosing_breakables.find_breakable(id): the index in the stack, 0 if none
find_breakable(c, id) ==
    IF c.enclosing_breakables.by_id[id] = NoIndex THEN 0
    ELSE c.enclosing_breakables.by_id[id] + 1

\* -------------------------------------------------- checking expressions
\* check_expr_break on `break 'a` without a value: the unit type is fed to
\* the accumulator of the target, found by its id, and the target may break.
check_expr_break(c, id, target) ==
    Bind(find_breakable(c, target),
    LAMBDA ix :
    IF ix = 0 THEN [c |-> bug(c), ty |-> ty_error]
    ELSE
    Bind(coerce_inner(c, c.enclosing_breakables.stack[ix].coerce, id, FALSE,
                      "unit", NoSpan),
    LAMBDA fed :
        [c |-> [fed.c EXCEPT !.enclosing_breakables.stack[ix] =
                    [coerce |-> fed.coerce, may_break |-> TRUE]],
         ty |-> "never"]))

check_expr_kind(c, e, expected) ==
    CASE e.kind = "IntLit" -> check_lit(c, "IntUnsuffixed", expected)
      [] e.kind = "Closure" -> [c |-> c, ty |-> "closure"]
      [] e.kind = "Return" -> [c |-> c, ty |-> "never"]
      [] e.kind = "F32" -> [c |-> c, ty |-> "f32"]
      [] e.kind = "Unit" -> [c |-> c, ty |-> "unit"]
      [] e.kind = "Err" -> [c |-> c, ty |-> ty_error]
      [] e.kind = "Break" -> check_expr_break(c, e.id, BlockId)

\* check_expr_with_expectation: the type of the expression is recorded for
\* its node; the outer diverges / has_errors are hidden and joined back.
check_expr_with_expectation(c, e, expected) ==
    Bind(emit(warn_if_unreachable(c, e.id, "expression"),
              [ev |-> "check_expr", id |-> e.id, expected |-> expected]),
    LAMBDA c0 :
    Bind(check_expr_kind([c0 EXCEPT !.diverges = "Maybe", !.has_errors = FALSE],
                         e, expected),
    LAMBDA r :
    Bind(write_ty(IF r.ty = "never"
                  THEN [r.c EXCEPT !.diverges = diverges_or(@, "Always")]
                  ELSE r.c,
                  e.id, r.ty),
    LAMBDA c3 :
        [c |-> [c3 EXCEPT !.diverges = diverges_or(@, c0.diverges),
                          !.has_errors = @ \/ c0.has_errors],
         ty |-> r.ty])))

check_expr(c, e) == check_expr_with_expectation(c, e, NoExpectation)

\* ------------------------------------------------------- statements, lets
\* hir::Local, hir::Stmt and hir::Block.  A pattern is a plain binding, a
\* `ref` binding, or a pattern that does not match the declared type.
NoExpr == [id |-> 0, kind |-> "None"]
NoLocalDecl == [id |-> 0, pat_id |-> 0, annotated |-> FALSE,
                pat |-> "None", init |-> NoExpr]

\* the locals of the lets of the body, declared before the body is checked
RECURSIVE gather_locals(_, _, _)
gather_locals(c, stmts, i) ==
    IF i > Len(stmts) THEN c
    ELSE IF stmts[i].kind # "Local" THEN gather_locals(c, stmts, i + 1)
    ELSE LET l == stmts[i].local
             r == IF l.annotated THEN [c |-> c, ty |-> "i32"]
                  ELSE next_var(c, "TyVar", FALSE)
             lt == LocalTy(r.ty, r.ty)
         IN  gather_locals([r.c EXCEPT !.locals[l.id] = lt,
                                       !.locals[l.pat_id] = lt],
                           stmts, i + 1)

\* local_ty(span, nid): the entry, NoLocal standing for the span_bug! arm
local_ty(c, nid) == c.locals[nid]

\* check_pat_top(pat, expected, ..): the pattern's node gets its type
check_pat_top(c, pat_id, pat, expected) ==
    IF pat = "Mismatch"
    THEN write_ty(emit(c, diag("E0308", pat_id)), pat_id, ty_error)
    ELSE write_ty(c, pat_id, expected)

overwrite_local_ty_if_err(c, local, decl_ty, ty) ==
    IF references_error(ty)
    THEN Bind(write_ty(write_ty(c, local.id, ty), local.pat_id, ty),
         LAMBDA c1 :
             [c1 EXCEPT !.locals[local.id] = LocalTy(decl_ty, ty),
                        !.locals[local.pat_id] = LocalTy(decl_ty, ty)])
    ELSE c

\* The result is the context and the type of the initializer.
check_decl_initializer(c, local, init) ==
    Bind(local_ty(c, local.id),
    LAMBDA lt :
        IF lt = NoLocal THEN [c |-> bug(c), ty |-> ty_error]
        ELSE IF local.pat = "RefBinding"
        THEN Bind(check_expr(c, init),
             LAMBDA r :
                 [c |-> demand_eqtype(r.c, init.id, lt.revealed_ty, r.ty),
                  ty |-> r.ty])
        ELSE Bind(check_expr_with_expectation(
                      c, init, ExpectHasType(lt.revealed_ty)),
             LAMBDA r : demand_coerce(r.c, init, r.ty, lt.revealed_ty)))

\* check_decl_local that does not record the declared type for the local
check_decl_local_unrecorded(c, local) ==
    Bind(local_ty(c, local.id),
    LAMBDA lt :
    IF lt = NoLocal THEN bug(c)
    ELSE
    Bind(c,
    LAMBDA c1 :
    Bind(IF local.init # NoExpr
         THEN Bind(check_decl_initializer(c1, local, local.init),
              LAMBDA r : IF r.c.aborted THEN r.c
                         ELSE overwrite_local_ty_if_err(
                                  r.c, local, lt.decl_ty, r.ty))
         ELSE c1,
    LAMBDA c2 :
    IF c2.aborted THEN c2
    ELSE
    Bind(check_pat_top(c2, local.pat_id, local.pat, lt.decl_ty),
    LAMBDA c3 :
    Bind(node_ty(c3, local.pat_id),
    LAMBDA pat_ty :
        IF pat_ty = ICE THEN bug(c3)
        ELSE overwrite_local_ty_if_err(c3, local, lt.decl_ty, pat_ty))))))

check_decl_local(c, local) ==
    Bind(local_ty(c, local.id),
    LAMBDA lt :
    IF lt = NoLocal THEN bug(c)
    ELSE
    Bind(write_ty(c, local.id, lt.decl_ty),
    LAMBDA c1 :
    Bind(IF local.init # NoExpr
         THEN Bind(check_decl_initializer(c1, local, local.init),
              LAMBDA r : IF r.c.aborted THEN r.c
                         ELSE overwrite_local_ty_if_err(
                                  r.c, local, lt.decl_ty, r.ty))
         ELSE c1,
    LAMBDA c2 :
    IF c2.aborted THEN c2
    ELSE
    Bind(check_pat_top(c2, local.pat_id, local.pat, lt.decl_ty),
    LAMBDA c3 :
    Bind(node_ty(c3, local.pat_id),
    LAMBDA pat_ty :
        IF pat_ty = ICE THEN bug(c3)
        ELSE overwrite_local_ty_if_err(c3, local, lt.decl_ty, pat_ty))))))

\* check_expr_has_type_or_error(expr, expected, ..)
check_expr_has_type_or_error(c, e, expected) ==
    Bind(check_expr_with_expectation(c, e, ExpectHasType(expected)),
    LAMBDA r :
        IF resolve_vars_if_possible(r.c, r.ty) = "never" THEN r.c
        ELSE demand_suptype(r.c, e.id, expected, r.ty))

\* check_stmt that does not join the saved outer values back
check_stmt_drops_outer(c, stmt) ==
    IF stmt.kind = "Item" \/ c.aborted THEN c
    ELSE
    Bind(warn_if_unreachable(c, stmt.id, "statement"),
    LAMBDA c0 :
    Bind([c0 EXCEPT !.diverges = "Maybe", !.has_errors = FALSE],
    LAMBDA c1 :
        CASE stmt.kind = "Local" -> check_decl_local(c1, stmt.local)
          [] stmt.kind = "Expr" ->
                check_expr_has_type_or_error(c1, stmt.expr, "unit")
          [] stmt.kind = "Semi" -> check_expr(c1, stmt.expr).c))

\* check_stmt that warns about unreachable code after checking the statement
check_stmt_warns_late(c, stmt) ==
    IF stmt.kind = "Item" \/ c.aborted THEN c
    ELSE
    Bind(c,
    LAMBDA c0 :
    Bind([c0 EXCEPT !.diverges = "Maybe", !.has_errors = FALSE],
    LAMBDA c1 :
    Bind(CASE stmt.kind = "Local" -> check_decl_local(c1, stmt.local)
           [] stmt.kind = "Expr" ->
                 check_expr_has_type_or_error(c1, stmt.expr, "unit")
           [] stmt.kind = "Semi" -> check_expr(c1, stmt.expr).c,
    LAMBDA c2 :
        warn_if_unreachable(
            [c2 EXCEPT !.diverges = diverges_or(@, c0.diverges),
                       !.has_errors = @ \/ c0.has_errors],
            stmt.id, "statement"))))

check_stmt(c, stmt) ==
    IF stmt.kind = "Item" \/ c.aborted THEN c
    ELSE
    Bind(warn_if_unreachable(c, stmt.id, "statement"),
    LAMBDA c0 :
    Bind([c0 EXCEPT !.diverges = "Maybe", !.has_errors = FALSE],
    LAMBDA c1 :
    Bind(CASE stmt.kind = "Local" -> check_decl_local(c1, stmt.local)
           [] stmt.kind = "Expr" ->
                 check_expr_has_type_or_error(c1, stmt.expr, "unit")
           [] stmt.kind = "Semi" -> check_expr(c1, stmt.expr).c,
    LAMBDA c2 :
        [c2 EXCEPT !.diverges = diverges_or(@, c0.diverges),
                   !.has_errors = @ \/ c0.has_errors])))

RECURSIVE check_stmts(_, _, _)
check_stmts(c, stmts, i) ==
    IF i > Len(stmts) THEN c
    ELSE check_stmts(check_stmt(c, stmts[i]), stmts, i + 1)

\* ----------------------------------------------------------------- blocks
\* could_remove_semicolon suggesting the whole last statement
could_remove_semicolon_whole_stmt(c, blk, expected_ty) ==
    IF blk.stmts = <<>> THEN NoSpan
    ELSE Bind(blk.stmts[Len(blk.stmts)],
         LAMBDA last_stmt :
             IF last_stmt.kind # "Semi" THEN NoSpan
             ELSE IF \/ node_ty(c, last_stmt.expr.id) = ty_error
                     \/ ~can_sub(c, node_ty(c, last_stmt.expr.id), expected_ty)
             THEN NoSpan
             ELSE Span(last_stmt.span.lo, last_stmt.span.hi))

could_remove_semicolon(c, blk, expected_ty) ==
    IF blk.stmts = <<>> THEN NoSpan
    ELSE Bind(blk.stmts[Len(blk.stmts)],
         LAMBDA last_stmt :
             IF last_stmt.kind # "Semi" THEN NoSpan
             ELSE IF \/ node_ty(c, last_stmt.expr.id) = ty_error
                     \/ ~can_sub(c, node_ty(c, last_stmt.expr.id), expected_ty)
             THEN NoSpan
             ELSE Span(last_stmt.span.hi - 1, last_stmt.span.hi))

\* expected.coercion_target_type(self, span)
coercion_target_type(c, expected) ==
    IF only_has_type(c, expected) # NoTy
    THEN [c |-> c, ty |-> only_has_type(c, expected)]
    ELSE next_var(c, "TyVar", FALSE)

\* ps.recurse(blk)
ps_recurse(c, blk) == IF blk.unsafe THEN "Unsafe" ELSE c.ps

\* The body of the closure given to with_breakable_ctxt.
\* the end of the closure given to with_breakable_ctxt: the type of the tail,
\* or the unit type if there is no tail and the end can be reached, is fed
\* to the accumulator of the block, found by the id of the block
coerce_block_tail(c, blk, expected, tail_expr_ty) ==
    Bind(find_breakable(c, blk.id),
    LAMBDA ix :
    IF ix = 0 THEN bug(c)
    ELSE
    Bind(c.enclosing_breakables.stack[ix].coerce,
    LAMBDA coerce :
    Bind(IF blk.expr # NoExpr
         THEN coerce_inner(c, coerce, blk.expr.id, TRUE, tail_expr_ty, NoSpan)
         ELSE IF ~is_always(c.diverges)
         THEN coerce_inner(c, coerce, blk.id, FALSE, "unit",
                  IF only_has_type(c, expected) # NoTy
                  THEN could_remove_semicolon(c, blk,
                           only_has_type(c, expected))
                  ELSE NoSpan)
         ELSE [c |-> c, coerce |-> coerce],
    LAMBDA fed :
        [fed.c EXCEPT !.enclosing_breakables.stack[ix].coerce = fed.coerce])))

check_block_body(c, blk, expected) ==
    Bind(check_stmts(c, blk.stmts, 1),
    LAMBDA c1 :
    Bind(IF blk.expr # NoExpr /\ ~c1.aborted
         THEN check_expr_with_expectation(c1, blk.expr, expected)
         ELSE [c |-> c1, ty |-> NoTy],
    LAMBDA r :
    IF r.c.aborted THEN r.c
    ELSE coerce_block_tail(r.c, blk, expected, r.ty)))

\* the locals of check_block_with_expected when it aborted
NoFrame == [prev_diverges |-> "none", may_break |-> FALSE,
            body_diverges |-> "none", has_errors |-> FALSE, complete |-> NoTy]
\* check_block_with_expected whose result ignores the has_errors flag
check_block_with_expected_launders(c, blk, expected) ==
    Bind(coercion_target_type([c EXCEPT !.ps = ps_recurse(c, blk)], expected),
    LAMBDA t :
    Bind(with_breakable_ctxt_enter(
             t.c, blk.id,
             [coerce |-> CoerceMany_new(t.ty), may_break |-> FALSE]),
    LAMBDA c1 :
    Bind(check_block_body(c1, blk, expected),
    LAMBDA c2 :
    IF c2.aborted THEN [c |-> c2, ty |-> ty_error, frame |-> NoFrame]
    ELSE
    Bind(with_breakable_ctxt_exit(c2, blk.id,
                                  Len(t.c.enclosing_breakables.stack)),
    LAMBDA x :
    IF x.c.aborted THEN [c |-> x.c, ty |-> ty_error, frame |-> NoFrame]
    ELSE
    Bind(IF x.ctxt.may_break
         THEN [x.c EXCEPT !.diverges = t.c.diverges] ELSE x.c,
    LAMBDA c3 :
    Bind(IF references_error(CoerceMany_complete(x.ctxt.coerce))
         THEN ty_error ELSE CoerceMany_complete(x.ctxt.coerce),
    LAMBDA ty :
        [c |-> [write_ty(c3, blk.id, ty) EXCEPT !.ps = c.ps], ty |-> ty,
         frame |-> [prev_diverges |-> t.c.diverges,
                    may_break |-> x.ctxt.may_break,
                    body_diverges |-> x.c.diverges,
                    has_errors |-> c3.has_errors,
                    complete |-> CoerceMany_complete(x.ctxt.coerce)]]))))))

\* check_block_with_expected that never restores the divergence of entry
check_block_with_expected_keeps_diverges(c, blk, expected) ==
    Bind(coercion_target_type([c EXCEPT !.ps = ps_recurse(c, blk)], expected),
    LAMBDA t :
    Bind(with_breakable_ctxt_enter(
             t.c, blk.id,
             [coerce |-> CoerceMany_new(t.ty), may_break |-> FALSE]),
    LAMBDA c1 :
    Bind(check_block_body(c1, blk, expected),
    LAMBDA c2 :
    IF c2.aborted THEN [c |-> c2, ty |-> ty_error, frame |-> NoFrame]
    ELSE
    Bind(with_breakable_ctxt_exit(c2, blk.id,
                                  Len(t.c.enclosing_breakables.stack)),
    LAMBDA x :
    IF x.c.aborted THEN [c |-> x.c, ty |-> ty_error, frame |-> NoFrame]
    ELSE
    Bind(x.c,
    LAMBDA c3 :
    Bind(IF \/ c3.has_errors
            \/ references_error(CoerceMany_complete(x.ctxt.coerce))
         THEN ty_error ELSE CoerceMany_complete(x.ctxt.coerce),
    LAMBDA ty :
        [c |-> [write_ty(c3, blk.id, ty) EXCEPT !.ps = c.ps], ty |-> ty,
         frame |-> [prev_diverges |-> t.c.diverges,
                    may_break |-> x.ctxt.may_break,
                    body_diverges |-> x.c.diverges,
                    has_errors |-> c3.has_errors,
                    complete |-> CoerceMany_complete(x.ctxt.coerce)]]))))))

\* The result is the context and the type of the block; frame holds the
\* locals of the call when it returned (NoFrame when checking aborted).
check_block_with_expected(c, blk, expected) ==
    Bind(coercion_target_type([c EXCEPT !.ps = ps_recurse(c, blk)], expected),
    LAMBDA t :
    Bind(with_breakable_ctxt_enter(
             t.c, blk.id,
             [coerce |-> CoerceMany_new(t.ty), may_break |-> FALSE]),
    LAMBDA c1 :
    Bind(check_block_body(c1, blk, expected),
    LAMBDA c2 :
    IF c2.aborted THEN [c |-> c2, ty |-> ty_error, frame |-> NoFrame]
    ELSE
    Bind(with_breakable_ctxt_exit(c2, blk.id,
                                  Len(t.c.enclosing_breakables.stack)),
    LAMBDA x :
    IF x.c.aborted THEN [c |-> x.c, ty |-> ty_error, frame |-> NoFrame]
    ELSE
    Bind(IF x.ctxt.may_break
         THEN [x.c EXCEPT !.diverges = t.c.diverges] ELSE x.c,
    LAMBDA c3 :
    Bind(IF \/ c3.has_errors
            \/ references_error(CoerceMany_complete(x.ctxt.coerce))
         THEN ty_error ELSE CoerceMany_complete(x.ctxt.coerce),
    LAMBDA ty :
        [c |-> [write_ty(c3, blk.id, ty) EXCEPT !.ps = c.ps], ty |-> ty,
         frame |-> [prev_diverges |-> t.c.diverges,
                    may_break |-> x.ctxt.may_break,
                    body_diverges |-> x.c.diverges,
                    has_errors |-> c3.has_errors,
                    complete |-> CoerceMany_complete(x.ctxt.coerce)]]))))))

\* err_args that returns no type at all
err_args_none(len) == <<>>

\* ---------------------------------------------------- check_argument_types
err_args(len) == [i \in 1..len |-> ty_error]

\* for &check_closures in &[false, true]
closure_passes_reversed == <<TRUE, FALSE>>
closure_passes == <<FALSE, TRUE>>

\* t taken from the number of arguments supplied whatever the call
checked_prefix_supplied(c_variadic, tuple_arguments, expected_arg_count, supplied_arg_count, nargs) ==
    IF tuple_arguments = "TupleArguments" THEN nargs ELSE supplied_arg_count

\* t, the number of leading arguments the two passes go over, taken from the
\* formal arity whatever the call
checked_prefix_formal(c_variadic, tuple_arguments, expected_arg_count, supplied_arg_count, nargs) ==
    expected_arg_count

\* let t = if c_variadic { .. } else if tuple_arguments == .. { .. } else { .. }
checked_prefix(c_variadic, tuple_arguments, expected_arg_count, supplied_arg_count, nargs) ==
    IF c_variadic THEN expected_arg_count
    ELSE IF tuple_arguments = "TupleArguments" THEN nargs
    ELSE supplied_arg_count

\* for (&fn_input_ty, arg_expr) in fn_inputs.iter().zip(args.iter())
RECURSIVE register_inputs_wf(_, _, _, _)
register_inputs_wf(c, fn_inputs, args, i) ==
    IF i > Len(fn_inputs) \/ i > Len(args) THEN c
    ELSE register_inputs_wf(register_wf_obligation(c, fn_inputs[i]),
                            fn_inputs, args, i + 1)

\* The arity reconciliation: the context (with the diagnostics emitted), the
\* formal types and the expected types the arguments are checked against.
formal_and_expected_tys(c, call_id, fn_inputs, expected_arg_tys0, args, c_variadic, tuple_arguments) ==
    LET supplied_arg_count ==
            IF tuple_arguments = "DontTupleArguments" THEN Len(args) ELSE 1
        expected_arg_count == Len(fn_inputs)
        pick(c1, formal, expected) ==
            [c |-> c1, formal_tys |-> formal,
             expected_arg_tys |-> IF expected # <<>> THEN expected ELSE formal]
    IN  IF tuple_arguments = "TupleArguments"
        THEN IF fn_inputs = <<>>
             THEN pick(bug(c), <<>>, <<>>)
             ELSE
             LET r == structurally_resolved_type(c, call_id, fn_inputs[1])
             IN  IF is_tuple(r.ty) /\ Len(tuple_fields(r.ty)) # Len(args)
                 THEN pick(emit(r.c, diag("E0057", call_id)),
                           err_args(Len(args)), <<>>)
                 ELSE IF is_tuple(r.ty)
                 THEN pick(r.c, tuple_fields(r.ty),
                           IF expected_arg_tys0 # <<>>
                              /\ is_tuple(expected_arg_tys0[1])
                           THEN tuple_fields(expected_arg_tys0[1])
                           ELSE <<>>)
                 ELSE pick(emit(r.c, diag("E0059", call_id)),
                           err_args(Len(args)), <<>>)
        ELSE IF expected_arg_count = supplied_arg_count
        THEN pick(c, fn_inputs, expected_arg_tys0)
        ELSE IF c_variadic
        THEN IF supplied_arg_count >= expected_arg_count
             THEN pick(c, fn_inputs, expected_arg_tys0)
             ELSE pick(emit(c, diag("E0060", call_id)),
                       err_args(supplied_arg_count), <<>>)
        ELSE pick(emit(c, diag("E0061", call_id)),
                  err_args(supplied_arg_count), <<>>)

\* the body of `for (i, arg) in args.iter().take(t).enumerate()` for one pass;
\* an index past the end of formal_tys or expected_arg_tys is a panic
RECURSIVE check_args_pass(_, _, _, _, _, _, _)
check_args_pass(c, args, t, formal_tys, expected_arg_tys, check_closures, i) ==
    IF c.aborted \/ i > t \/ i > Len(args) THEN c
    ELSE
    LET arg == args[i]
        c1 == IF ~check_closures
              THEN warn_if_unreachable(c, arg.id, "expression") ELSE c
    IN  IF is_closure(arg) # check_closures
        THEN check_args_pass(c1, args, t, formal_tys, expected_arg_tys,
                             check_closures, i + 1)
        ELSE IF i > Len(formal_tys) \/ i > Len(expected_arg_tys)
        THEN bug(c1)
        ELSE
        LET formal_ty == formal_tys[i]
            expected == rvalue_hint(expected_arg_tys[i])
            r == check_expr_with_expectation(c1, arg, expected)
            coerce_ty == IF only_has_type(r.c, expected) # NoTy
                         THEN only_has_type(r.c, expected) ELSE formal_ty
            c2 == demand_coerce(r.c, arg, r.ty, coerce_ty).c
            c3 == demand_suptype(c2, arg.id, formal_ty, coerce_ty)
        IN  check_args_pass(c3, args, t, formal_tys, expected_arg_tys,
                            check_closures, i + 1)

\* the match on arg_ty.kind() without its first arm
variadic_cast_ty_f32_passes(arg_ty) ==
    CASE arg_ty \in {"i8", "i16", "bool"} -> "c_int"
      [] arg_ty \in {"u8", "u16"} -> "c_uint"
      [] arg_ty = "FnDef" -> "FnPtr"
      [] OTHER -> NoTy

\* the cast the variadic_error of the tail loop asks for, NoTy for none
variadic_cast_ty(arg_ty) ==
    CASE arg_ty = "f32" -> "c_double"
      [] arg_ty \in {"i8", "i16", "bool"} -> "c_int"
      [] arg_ty \in {"u8", "u16"} -> "c_uint"
      [] arg_ty = "FnDef" -> "FnPtr"
      [] OTHER -> NoTy

\* for arg in args.iter().skip(expected_arg_count)
RECURSIVE check_variadic_tail(_, _, _)
check_variadic_tail(c, args, i) ==
    IF c.aborted \/ i > Len(args) THEN c
    ELSE
    LET r == check_expr(c, args[i])
        s == structurally_resolved_type(r.c, args[i].id, r.ty)
        c1 == IF variadic_cast_ty(s.ty) # NoTy
              THEN emit(s.c, [ev |-> "diag", code |-> "E0617",
                              id |-> args[i].id,
                              cast_ty |-> variadic_cast_ty(s.ty)])
              ELSE s.c
    IN  check_variadic_tail(c1, args, i + 1)

check_argument_types(c, call_id, fn_inputs, expected_arg_tys0, args, c_variadic, tuple_arguments) ==
    LET supplied_arg_count ==
            IF tuple_arguments = "DontTupleArguments" THEN Len(args) ELSE 1
        expected_arg_count == Len(fn_inputs)
        c0 == register_inputs_wf(c, fn_inputs, args, 1)
        f == formal_and_expected_tys(c0, call_id, fn_inputs, expected_arg_tys0,
                                     args, c_variadic, tuple_arguments)
        t == checked_prefix(c_variadic, tuple_arguments, expected_arg_count,
                            supplied_arg_count, Len(args))
        pass(c1, check_closures) ==
            check_args_pass(IF check_closures /\ ~c1.aborted
                            THEN select_obligations_where_possible(c1) ELSE c1,
                            args, t, f.formal_tys, f.expected_arg_tys,
                            check_closures, 1)
        c2 == pass(pass(f.c, closure_passes[1]), closure_passes[2])
    IN  IF c_variadic THEN check_variadic_tail(c2, args, expected_arg_count + 1)
        ELSE c2

\* ---------------------------------------------- resolve_ty_and_res_ufcs
\* type_dependent_defs: no entry, Ok((kind, def_id)) or Err(ErrorReported)
NoEntry == "none"

\* write_resolution that records nothing for a failed resolution
write_resolution_of_definitions(c, hir_id, r) ==
    IF r = "Def" THEN [c EXCEPT !.type_dependent_defs[hir_id] = r] ELSE c

write_resolution(c, hir_id, r) ==
    [c EXCEPT !.type_dependent_defs[hir_id] = r]

\* to_ty(ast_t): the type of the AST type, registered as to be well-formed
to_ty(c, ast_t) == [c |-> register_wf_obligation(c, ast_t), ty |-> ast_t]

\* a path: QPath::Resolved(None, path) with its res, QPath::TypeRelative(qself,
\* segment) with the type of qself and whether the name of the segment is
\* kw::Invalid, or QPath::LangItem
QPaths ==
    {[kind |-> "Resolved", res |-> "Local", qself |-> NoTy, invalid_name |-> FALSE],
     [kind |-> "TypeRelative", res |-> "none", qself |-> "i32", invalid_name |-> FALSE],
     [kind |-> "TypeRelative", res |-> "none", qself |-> "i32", invalid_name |-> TRUE],
     [kind |-> "LangItem", res |-> "none", qself |-> NoTy, invalid_name |-> FALSE]}
\* what resolve_ufcs returns for the path if it is run, Ok or a MethodError,
\* and whether report_method_error has a diagnostic for the error
UfcsResults ==
    {[result |-> "Ok", reported |-> FALSE]}
    \cup {[result |-> e, reported |-> b] :
            e \in {"PrivateMatch", "NoMatch"}, b \in BOOLEAN}
NoRes == [res |-> "none", ty |-> NoTy]
\* The result is the context and the (Res, Option<Ty>) returned.
resolve_ty_and_res_ufcs(c, qpath, hir_id, ufcs) ==
    IF qpath.kind = "Resolved"
    THEN [c |-> c, ret |-> [res |-> qpath.res, ty |-> NoTy]]
    ELSE IF qpath.kind = "LangItem" THEN [c |-> bug(c), ret |-> NoRes]
    ELSE
    Bind(to_ty(c, qpath.qself),
    LAMBDA t :
    IF t.c.type_dependent_defs[hir_id] # NoEntry
    THEN [c |-> t.c,
          ret |-> [res |-> IF t.c.type_dependent_defs[hir_id] = "Def"
                           THEN "Def" ELSE "Err",
                   ty |-> t.ty]]
    ELSE
    Bind(emit(t.c, [ev |-> "resolve_ufcs", id |-> hir_id]),
    LAMBDA c1 :
    Bind(IF ufcs.result \in {"Ok", "PrivateMatch"} THEN "Def"
         ELSE "ErrorReported",
    LAMBDA result :
    Bind(IF ufcs.result # "Ok" /\ ~qpath.invalid_name /\ ufcs.reported
         THEN emit(c1, diag("E0599", hir_id)) ELSE c1,
    LAMBDA c2 :
        [c |-> write_resolution(c2, hir_id, result),
         ret |-> [res |-> IF result = "Def" THEN "Def" ELSE "Err",
                  ty |-> t.ty]]))))

\* ------------------------------------------------------------------ Init
Init ==
    /\ node_types = [n \in Nodes |-> NoTy]
    /\ has_errors = FALSE
    /\ tainted_by_errors = FALSE
    /\ adjustments = [e \in Nodes |-> Vacant]
    /\ diverges = "Maybe"
    /\ locals = [n \in Nodes |-> NoLocal]
    /\ enclosing_breakables = [stack |-> <<>>, by_id |-> [n \in Nodes |-> NoIndex]]
    /\ ps = "Normal"
    /\ trace = <<>>
    /\ mutable_derefs = {}
    /\ var_kind = [v \in Vars |-> "unused"]
    /\ var_value = [v \in Vars |-> Unresolved]
    /\ var_diverges = {}
    /\ opaque_types_vars = [v \in Vars |-> NoTy]
    /\ never_type_fallback \in BOOLEAN
    /\ debug_assertions \in BOOLEAN
    /\ breakable_frames = <<>>
    /\ fulfillment_cx = <<>>
    /\ type_dependent_defs = [n \in Nodes |-> NoEntry]
    /\ retyped = FALSE
    /\ deferred_cast_checks = <<>>
    /\ deferred_generator_interiors = <<>>
    /\ deferred_call_resolutions = [closure \in ClosureIds |-> <<>>]
    /\ aborted = FALSE
    /\ last = [op |-> "new"]

\* --------------------------------------------------------------- actions
WriteTy ==
    /\ ~aborted
    /\ \E id \in StoreNodes, ty \in Ty :
        /\ Commit(write_ty(fcx, id, ty))
        /\ last' = [op |-> "write_ty", id |-> id, ty |-> ty]

NodeTy ==
    /\ ~aborted
    /\ \E id \in StoreNodes :
        LET r == node_ty(fcx, id)
        IN  /\ Commit(IF r = ICE THEN bug(fcx) ELSE fcx)
            /\ last' = [op |-> "node_ty", id |-> id, ret |-> r]

SetTaintedByErrors ==
    /\ ~aborted
    /\ Commit(set_tainted_by_errors(fcx))
    /\ last' = [op |-> "set_tainted_by_errors"]

ApplyAdjustments ==
    /\ ~aborted
    /\ \E expr \in AdjExprs, adj \in AdjChains :
        /\ Commit(apply_adjustments(fcx, expr, adj))
        /\ last' = [op |-> "apply_adjustments", expr |-> expr, adj |-> adj,
                    prev |-> adjustments[expr]]

\* check_lit on a literal of the body, under some expectation
LitExpectations == {NoExpectation, ExpectHasType("u8"), ExpectHasType("f32")}
CheckLit ==
    /\ ~aborted
    /\ \E lit \in {"IntUnsuffixed", "FloatUnsuffixed", "Int_i64"},
          expected \in LitExpectations :
        /\ lit \in {"IntUnsuffixed", "FloatUnsuffixed"} => has_fresh_var(fcx)
        /\ LET r == check_lit(fcx, lit, expected)
           IN  /\ Commit(r.c)
               /\ last' = [op |-> "check_lit", lit |-> lit,
                           expected |-> expected, ret |-> r.ty]

\* A type variable made by another part of the checker: plain, diverging,
\* and/or the placeholder of an opaque type.
NewTyVar ==
    /\ ~aborted
    /\ has_fresh_var(fcx)
    /\ \E diverging \in BOOLEAN, opaque \in BOOLEAN :
        LET r == next_var(fcx, "TyVar", diverging)
            c1 == IF opaque
                  THEN [r.c EXCEPT !.opaque_types_vars[vid(r.ty)] = OpaqueTy]
                  ELSE r.c
        IN  /\ Commit(c1)
            /\ last' = [op |-> "next_ty_var", ret |-> r.ty]

\* fallback_if_possible on a variable of fcx.unsolved_variables()
FallbackIfPossible ==
    /\ ~aborted
    /\ \E v \in Vars, mode \in FallbackModes :
        /\ var_kind[v] # "unused"
        /\ var_value[v] = Unresolved
        /\ LET r == fallback_if_possible(fcx, InferTy(v), mode)
           IN  /\ Commit(r.c)
               /\ last' = [op |-> "fallback_if_possible", vid |-> v,
                           mode |-> mode, ret |-> r.ret]

\* The calls check_argument_types is given: the formal types of the callee,
\* the expected types (none, or the formal ones), the argument expressions
\* (argument i is node i), and the two flags; the callers never combine
\* C-variadic with tuple-call sugar, and a tuple-sugar call has one formal.
FormalTys == {"i32", "FnPtr"}
ArgLists == UNION {[1..m -> ExprKinds] : m \in 0..MaxArgs}
FnInputs(tuple_arguments) ==
    IF tuple_arguments = "TupleArguments"
    THEN {<<TupleTy(k)>> : k \in 0..MaxArgs} \cup {<<"i32">>}
    ELSE UNION {[1..n -> FormalTys] : n \in 0..MaxArgs}
\* the node of the call expression itself
CallId == NumNodes
CheckArgumentTypes ==
    /\ ~aborted
    /\ last.op = "new"
    /\ \E tuple_arguments \in {"DontTupleArguments", "TupleArguments"},
          c_variadic \in BOOLEAN, kinds \in ArgLists, with_expected \in BOOLEAN :
        \E fn_inputs \in FnInputs(tuple_arguments) :
        LET args == [i \in 1..Len(kinds) |-> Expr(i, kinds[i])]
            expected_arg_tys == IF with_expected THEN fn_inputs ELSE <<>>
        IN  /\ c_variadic => tuple_arguments = "DontTupleArguments"
            /\ Cardinality({i \in 1..Len(kinds) : kinds[i] = "IntLit"})
                    <= NumVars
            /\ Commit(check_argument_types(fcx, CallId, fn_inputs,
                        expected_arg_tys, args, c_variadic, tuple_arguments))
            /\ last' = [op |-> "check_argument_types", fn_inputs |-> fn_inputs,
                        expected_arg_tys |-> expected_arg_tys, args |-> args,
                        c_variadic |-> c_variadic,
                        tuple_arguments |-> tuple_arguments]

\* The bodies check_block_with_expected is given.  The block is node 1; the
\* k-th statement is node 4k-2, its let node 4k-1, the pattern of the let
\* node 4k and its initializer or expression node 4k+1; the tail expression
\* is the last node.
TailId == 4 * MaxStmts + 2
\* the k-th statement starts at byte 20k; its length is that of its text
StmtSpan(k, len) == Span(20 * k, 20 * k + len)
ExprLen(e) ==
    CASE e = "IntLit" -> 1 [] e = "Return" -> 6 [] e = "F32" -> 1
      [] e = "Unit" -> 2 [] e = "Break" -> 8 [] e = "Err" -> 1 [] OTHER -> 0
Local(k, annotated, pat, init) ==
    [id |-> 4 * k - 2, kind |-> "Local", span |-> StmtSpan(k, 8 + ExprLen(init)),
     local |-> [id |-> 4 * k - 1, pat_id |-> 4 * k, annotated |-> annotated,
                pat |-> pat,
                init |-> IF init = "None" THEN NoExpr ELSE Expr(4 * k + 1, init)],
     expr |-> NoExpr]
ExprStmt(k, kind, e) ==
    [id |-> 4 * k - 2, kind |-> kind, local |-> NoLocalDecl,
     span |-> StmtSpan(k, ExprLen(e) + (IF kind = "Semi" THEN 1 ELSE 0)),
     expr |-> Expr(4 * k + 1, e)]
ItemStmt(k) ==
    [id |-> 4 * k - 2, kind |-> "Item", local |-> NoLocalDecl,
     span |-> StmtSpan(k, 9), expr |-> NoExpr]
\*   let x;   let x = 1;   let x: i32 = 1;   let x: i32 = return;
\*   let x: i32 = f;   let ref x = 1;   let (a, b): i32;
\*   1;   return;   return   1   fn f() {}   ();   break 'a;
\*   let x: i32 = <error>;
StmtsAt(k) ==
    { Local(k, FALSE, "Binding", "None"), Local(k, FALSE, "Binding", "IntLit"),
      Local(k, TRUE, "Binding", "IntLit"), Local(k, TRUE, "Binding", "Return"),
      Local(k, TRUE, "Binding", "F32"), Local(k, FALSE, "RefBinding", "IntLit"),
      Local(k, TRUE, "Mismatch", "None"),
      ExprStmt(k, "Semi", "IntLit"), ExprStmt(k, "Semi", "Return"),
      ExprStmt(k, "Expr", "Return"), ExprStmt(k, "Expr", "IntLit"),
      ItemStmt(k), ExprStmt(k, "Semi", "Unit"), ExprStmt(k, "Semi", "Break"),
      Local(k, TRUE, "Binding", "Err") }
RECURSIVE StmtLists(_)
StmtLists(n) ==
    IF n = 0 THEN {<<>>}
    ELSE StmtLists(n - 1) \cup
         {Append(ss, s) : ss \in {l \in StmtLists(n - 1) : Len(l) = n - 1},
                          s \in StmtsAt(n)}
TailExprs ==
    {NoExpr} \cup {Expr(TailId, k) : k \in {"IntLit", "Return", "F32", "Break"}}
BlockExpectations == {NoExpectation, ExpectHasType("unit"), ExpectHasType("i32")}
\* the inference variables the check of the block may ask for
VarsNeeded(blk, expected) ==
    (IF expected = NoExpectation THEN 1 ELSE 0)
    + (IF blk.expr.kind = "IntLit" THEN 1 ELSE 0)
    + Cardinality({k \in 1..Len(blk.stmts) :
            blk.stmts[k].kind = "Local" /\ ~blk.stmts[k].local.annotated})
    + Cardinality({k \in 1..Len(blk.stmts) :
            \/ blk.stmts[k].expr.kind = "IntLit"
            \/ blk.stmts[k].local.init.kind = "IntLit"})

CheckBlock ==
    /\ ~aborted
    /\ last.op = "new"
    /\ \E stmts \in StmtLists(MaxStmts), tail \in TailExprs,
          unsafe \in BOOLEAN, expected \in BlockExpectations :
        LET blk == [id |-> BlockId, stmts |-> stmts, expr |-> tail,
                    unsafe |-> unsafe]
            c0 == gather_locals(fcx, stmts, 1)
            r  == check_block_with_expected(c0, blk, expected)
        IN  /\ VarsNeeded(blk, expected) <= NumVars
            /\ Commit(r.c)
            /\ last' = [op |-> "check_block", blk |-> blk,
                        expected |-> expected, ret |-> r.ty,
                        frame |-> r.frame]

\* The fallback at the end of the body: fallback_if_possible, mode NoOpaque, on
\* every inference variable that is still unresolved, in the order of their
\* creation.
RECURSIVE fallback_unsolved_variables(_, _)
fallback_unsolved_variables(c, v) ==
    IF v > NumVars \/ c.aborted THEN c
    ELSE IF c.var_kind[v] # "unused" /\ c.var_value[v] = Unresolved
    THEN fallback_unsolved_variables(
             fallback_if_possible(c, InferTy(v), "NoOpaque").c, v + 1)
    ELSE fallback_unsolved_variables(c, v + 1)

FallbackUnsolved ==
    /\ ~aborted
    /\ last.op = "check_argument_types"
    /\ Commit(fallback_unsolved_variables(fcx, 1))
    /\ last' = [op |-> "fallback", call |-> last]

\* The obligations of a body and their solving: the bounds of an item that is
\* used are registered, a call is checked, a type is resolved as far as the
\* pending obligations allow, and the final pass takes what is left.
MaxObligations == 2
RegisteredPositions ==
    {p \in 1..Len(trace) : trace[p].ev = "register_predicate"}
AddRequiredObligations ==
    /\ ~aborted
    /\ last.op \in {"new", "add_required_obligations", "check_argument_types",
                    "resolve_vars_with_obligations"}
    /\ Cardinality(RegisteredPositions) < MaxObligations
    /\ \E verdict \in Verdicts :
        LET obligation == [pred |-> "Trait",
                           ty |-> Cardinality(RegisteredPositions) + 1,
                           verdict |-> verdict]
        IN  /\ Commit(emit(register_predicate(fcx, obligation),
                           [ev |-> "register_predicate",
                            obligation |-> obligation]))
            /\ last' = [op |-> "add_required_obligations",
                        obligation |-> obligation]

\* check_argument_types on the calls f(..) of functions of no or one i32
\* parameter, C-variadic or not, before any solve
BoundedCalls ==
    {<<>>, <<"IntLit">>, <<"Closure">>, <<"IntLit", "Closure">>}
CheckBoundedCall ==
    /\ ~aborted
    /\ last.op \in {"new", "add_required_obligations"}
    /\ \A p \in 1..Len(trace) : trace[p].ev # "select_where_possible"
    /\ \E kinds \in BoundedCalls, c_variadic \in BOOLEAN,
          fn_inputs \in {<<>>, <<"i32">>} :
        LET args == [i \in 1..Len(kinds) |-> Expr(i, kinds[i])]
        IN  /\ c_variadic \/ Len(fn_inputs) = Len(kinds)
            /\ Len(fn_inputs) <= Len(kinds)
            /\ Commit(check_argument_types(fcx, CallId, fn_inputs, <<>>, args,
                                           c_variadic, "DontTupleArguments"))
            /\ last' = [op |-> "check_argument_types", fn_inputs |-> fn_inputs,
                        expected_arg_tys |-> <<>>, args |-> args,
                        c_variadic |-> c_variadic,
                        tuple_arguments |-> "DontTupleArguments"]

ResolveVarsWithObligations ==
    /\ ~aborted
    /\ last.op \in {"check_argument_types", "add_required_obligations"}
    /\ \E v \in Vars :
        /\ var_kind[v] # "unused"
        /\ LET r == resolve_vars_with_obligations(fcx, InferTy(v))
           IN  /\ Commit(r.c)
               /\ last' = [op |-> "resolve_vars_with_obligations",
                           ty |-> InferTy(v), ret |-> r.ty]

\* structurally_resolved_type on the type variables of the body, at the node
\* of an expression
ResolveNode == 1
StructurallyResolvedType ==
    /\ ~aborted
    /\ \E v \in Vars :
        /\ var_kind[v] # "unused"
        /\ LET r == structurally_resolved_type(fcx, ResolveNode, InferTy(v))
           IN  /\ Commit(r.c)
               /\ last' = [op |-> "structurally_resolved_type",
                           ty |-> InferTy(v), ret |-> r.ty,
                           before |-> [tainted_by_errors |-> tainted_by_errors,
                                       var_kind |-> var_kind,
                                       var_value |-> var_value,
                                       trace |-> trace]]

SelectAllObligationsOrError ==
    /\ ~aborted
    /\ last.op \in {"add_required_obligations", "check_argument_types",
                    "resolve_vars_with_obligations"}
    /\ Commit(select_all_obligations_or_error(fcx))
    /\ last' = [op |-> "select_all_obligations_or_error"]

\* resolve_ty_and_res_ufcs on the paths of the body, some of them more than
\* once (a pattern is checked again under another binding mode)
MaxResolves == 2
PathNodes == 1..2
ResolveTyAndResUfcs ==
    /\ ~aborted
    /\ Cardinality({p \in 1..Len(trace) : trace[p].ev = "register_wf"})
            < MaxResolves
    /\ \E hir_id \in PathNodes, qpath \in QPaths, ufcs \in UfcsResults :
        LET r == resolve_ty_and_res_ufcs(fcx, qpath, hir_id, ufcs)
        IN  /\ Commit(r.c)
            /\ last' = [op |-> "resolve_ty_and_res_ufcs", hir_id |-> hir_id,
                        qpath |-> qpath, ufcs |-> ufcs, ret |-> r.ret,
                        cached |-> type_dependent_defs[hir_id],
                        before |-> Len(trace)]

\* The calls of with_breakable_ctxt, step by step: the entry up to the call of
\* f, what f does to the contexts (a break out of an enclosing context, the
\* end of the body of the innermost block) and the return of f.  The ids
\* of the contexts entered and not left are pairwise distinct.
MaxDepth == 3
MaxFeeds == 2
BreakableIds == 1..3
BreakNode == 4
LiveIds == {breakable_frames[k].id : k \in 1..Len(breakable_frames)}
EnterBreakable ==
    /\ ~aborted
    /\ last.op \in {"new", "enter", "break", "tail", "exit"}
    /\ Len(breakable_frames) < MaxDepth
    /\ \E id \in BreakableIds \ LiveIds :
        LET index == Len(enclosing_breakables.stack)
            ctxt  == [coerce |-> CoerceMany_new("unit"), may_break |-> FALSE]
        IN  /\ Commit([with_breakable_ctxt_enter(fcx, id, ctxt) EXCEPT
                        !.breakable_frames =
                            Append(@, [id |-> id, index |-> index,
                                       had_nested |-> FALSE])])
            /\ last' = [op |-> "enter", id |-> id, index |-> index]

BreakTo ==
    /\ ~aborted
    /\ \E target \in LiveIds :
        /\ enclosing_breakables.stack[find_breakable(fcx, target)].coerce.pushed
                < MaxFeeds
        /\ Commit(check_expr_break(fcx, BreakNode, target).c)
        /\ last' = [op |-> "break", id |-> target,
                    before |-> enclosing_breakables]

BlockTail ==
    /\ ~aborted
    /\ breakable_frames # <<>>
    /\ LET id == breakable_frames[Len(breakable_frames)].id
       IN  /\ enclosing_breakables.stack[find_breakable(fcx, id)].coerce.pushed
                    < MaxFeeds
           /\ Commit(coerce_block_tail(fcx, [id |-> id, expr |-> NoExpr],
                                       NoExpectation, NoTy))
           /\ last' = [op |-> "tail", id |-> id,
                       before |-> enclosing_breakables]

ExitBreakable ==
    /\ ~aborted
    /\ breakable_frames # <<>>
    /\ LET n     == Len(breakable_frames)
           frame == breakable_frames[n]
           x     == with_breakable_ctxt_exit(fcx, frame.id, frame.index)
       IN  /\ Commit([x.c EXCEPT !.breakable_frames =
                        [k \in 1..(n - 1) |->
                            IF k = n - 1
                            THEN [breakable_frames[k] EXCEPT !.had_nested = TRUE]
                            ELSE breakable_frames[k]]])
           /\ last' = [op |-> "exit", id |-> frame.id, index |-> frame.index,
                       ctxt |-> x.ctxt, before |-> enclosing_breakables]


\* -------------------------------------------------------- specifications
NextStore == WriteTy \/ NodeTy \/ SetTaintedByErrors
SpecStore == Init /\ [][NextStore]_vars

NextAdjust == ApplyAdjustments
SpecAdjust == Init /\ [][NextAdjust]_vars

NextArgs == CheckArgumentTypes
SpecArgs == Init /\ [][NextArgs]_vars

\* The statements of a body, one after the other.  GatherLocals declares the
\* locals of the lets (GatherLocalsVisitor, before the body is checked);
\* CheckStmt is check_stmt on the next statement, in the state the one
\* before it left.
GatherLocals ==
    /\ ~aborted
    /\ last.op = "new"
    /\ \E stmts \in StmtLists(MaxStmts) :
        /\ stmts # <<>>
        /\ VarsNeeded([stmts |-> stmts, expr |-> NoExpr],
                      ExpectHasType("unit")) <= NumVars
        /\ Commit(gather_locals(fcx, stmts, 1))
        /\ last' = [op |-> "gather_locals", stmts |-> stmts, next |-> 1]

CheckStmt ==
    /\ ~aborted
    /\ last.op \in {"gather_locals", "check_stmt"}
    /\ last.next <= Len(last.stmts)
    /\ Commit(check_stmt(fcx, last.stmts[last.next]))
    /\ last' = [op |-> "check_stmt", stmts |-> last.stmts,
                next |-> last.next + 1, stmt |-> last.stmts[last.next],
                before |-> fcx]

\* The divergence state, step by step.  WarnIfUnreachable is a call of
\* warn_if_unreachable; ExprDiverges is the check of an expression of type !
\* joining Always into the state; EnterStmt is check_stmt up to the check of
\* the statement itself (the warning, then the outer values saved and
\* hidden), LeaveStmt its last two lines (the saved values joined back).
MaxEvents == 4
WarnNodes == 1..2
SavedFlags == IF last.op = "new" THEN <<>> ELSE last.saved
WarnIfUnreachable ==
    /\ ~aborted
    /\ Len(trace) < MaxEvents
    /\ \E id \in WarnNodes, desugared \in BOOLEAN :
        /\ Commit(warn_if_unreachable_at(fcx, id, "expression", desugared))
        /\ last' = [op |-> "warn_if_unreachable", id |-> id,
                    desugared |-> desugared, saved |-> SavedFlags]

ExprDiverges ==
    /\ ~aborted
    /\ Len(trace) < MaxEvents
    /\ Commit(emit([fcx EXCEPT !.diverges = diverges_or(@, "Always")],
                   [ev |-> "diverges",
                    now |-> diverges_or(diverges, "Always")]))
    /\ last' = [op |-> "expr_diverges", saved |-> SavedFlags]

EnterStmt ==
    /\ ~aborted
    /\ Len(trace) < MaxEvents
    /\ Len(SavedFlags) < MaxDepth
    /\ \E id \in WarnNodes :
        LET c0 == warn_if_unreachable(fcx, id, "statement")
        IN  /\ Commit([c0 EXCEPT !.diverges = "Maybe", !.has_errors = FALSE])
            /\ last' = [op |-> "check_stmt_enter", id |-> id,
                        saved |-> Append(SavedFlags,
                                         [diverges |-> c0.diverges,
                                          has_errors |-> c0.has_errors])]

LeaveStmt ==
    /\ ~aborted
    /\ SavedFlags # <<>>
    /\ LET old == SavedFlags[Len(SavedFlags)]
       IN  /\ Commit([fcx EXCEPT
                        !.diverges = diverges_or(@, old.diverges),
                        !.has_errors = @ \/ old.has_errors])
           /\ last' = [op |-> "check_stmt_leave",
                       saved |-> SubSeq(SavedFlags, 1, Len(SavedFlags) - 1)]

\* The deferred work of a body: casts, generator interiors and the call
\* resolutions of closures are deferred while the body is checked (item n is
\* the n-th one deferred) and drained by check_casts,
\* resolve_generator_interiors and remove_deferred_call_resolutions.
MaxDeferred == 3
DeferredSoFar ==
    Cardinality({p \in 1..Len(trace) :
        trace[p].ev \in {"defer_cast", "defer_interior", "defer_call"}})
DeferCast ==
    /\ ~aborted
    /\ DeferredSoFar < MaxDeferred
    /\ Commit(emit([fcx EXCEPT !.deferred_cast_checks =
                        Append(@, DeferredSoFar + 1)],
                   [ev |-> "defer_cast", item |-> DeferredSoFar + 1]))
    /\ last' = [op |-> "defer_cast"]

DeferGeneratorInterior ==
    /\ ~aborted
    /\ DeferredSoFar < MaxDeferred
    /\ Commit(emit([fcx EXCEPT !.deferred_generator_interiors =
                        Append(@, DeferredSoFar + 1)],
                   [ev |-> "defer_interior", item |-> DeferredSoFar + 1]))
    /\ last' = [op |-> "defer_interior"]

RecordDeferredCallResolution ==
    /\ ~aborted
    /\ DeferredSoFar < MaxDeferred
    /\ \E closure \in ClosureIds :
        /\ Commit(emit(record_deferred_call_resolution(
                           fcx, closure, DeferredSoFar + 1),
                       [ev |-> "defer_call", closure |-> closure,
                        item |-> DeferredSoFar + 1]))
        /\ last' = [op |-> "record_deferred_call_resolution",
                    closure |-> closure]

CheckCasts ==
    /\ ~aborted
    /\ Commit(check_casts(fcx))
    /\ last' = [op |-> "check_casts", queue |-> deferred_cast_checks,
                before |-> Len(trace)]

ResolveGeneratorInteriors ==
    /\ ~aborted
    /\ Commit(resolve_generator_interiors(fcx))
    /\ last' = [op |-> "resolve_generator_interiors",
                queue |-> deferred_generator_interiors,
                before |-> Len(trace)]

RemoveDeferredCallResolutions ==
    /\ ~aborted
    /\ \E closure \in ClosureIds :
        LET r == remove_deferred_call_resolutions(fcx, closure)
        IN  /\ Commit(IF r.ret = <<>> THEN r.c
                      ELSE emit(r.c, [ev |-> "removed_call_resolutions",
                                      closure |-> closure, ret |-> r.ret]))
            /\ last' = [op |-> "remove_deferred_call_resolutions",
                        closure |-> closure, ret |-> r.ret,
                        queue |-> deferred_call_resolutions[closure]]

\* check_struct_path on a path that resolves to Res::Err, between two
\* statements of the body
CheckStructPathErr ==
    /\ ~aborted
    /\ ~tainted_by_errors
    /\ Commit(set_tainted_by_errors(fcx))
    /\ last' = last

NextBody == CheckBlock \/ CheckArgumentTypes
SpecBody == Init /\ [][NextBody]_vars

NextBreakable == EnterBreakable \/ BreakTo \/ BlockTail \/ ExitBreakable
SpecBreakable == Init /\ [][NextBreakable]_vars

NextCall == CheckArgumentTypes \/ FallbackUnsolved
SpecCall == Init /\ [][NextCall]_vars

NextObligations ==
    \/ AddRequiredObligations
    \/ CheckBoundedCall
    \/ ResolveVarsWithObligations
    \/ SelectAllObligationsOrError
SpecObligations == Init /\ [][NextObligations]_vars

NextPaths == ResolveTyAndResUfcs
SpecPaths == Init /\ [][NextPaths]_vars

NextResolve ==
    NewTyVar \/ SetTaintedByErrors \/ StructurallyResolvedType
SpecResolve == Init /\ [][NextResolve]_vars

NextUnreachable == WarnIfUnreachable \/ ExprDiverges \/ EnterStmt \/ LeaveStmt
SpecUnreachable == Init /\ [][NextUnreachable]_vars

NextDeferred ==
    \/ DeferCast \/ DeferGeneratorInterior \/ RecordDeferredCallResolution
    \/ CheckCasts \/ ResolveGeneratorInteriors
    \/ RemoveDeferredCallResolutions
SpecDeferred == Init /\ [][NextDeferred]_vars

NextTaint == GatherLocals \/ CheckStmt \/ CheckStructPathErr
SpecTaint == Init /\ [][NextTaint]_vars

NextStmts == GatherLocals \/ CheckStmt
SpecStmts == Init /\ [][NextStmts]_vars

NextFallback == CheckLit \/ NewTyVar \/ SetTaintedByErrors \/ FallbackIfPossible
SpecFallback == Init /\ [][NextFallback]_vars

\* ---------------------------------------------------------------- claims
\* the positions of the trace at which an expression was type-checked
CheckPositions == {p \in 1..Len(trace) : trace[p].ev = "check_expr"}
\* the positions of the trace at which an arity diagnostic was emitted
ArityDiagPositions ==
    {p \in 1..Len(trace) :
        trace[p].ev = "diag" /\ trace[p].code \in {"E0057", "E0060", "E0061"}}

\* C1 as stated: in every call shape, every check of a non-closure argument
\* precedes every check of a closure argument of the same call.
C1_NonClosuresBeforeClosures ==
    last.op = "check_argument_types" =>
        \A p, q \in CheckPositions :
            ( /\ last.args[trace[p].id].kind # "Closure"
              /\ last.args[trace[q].id].kind = "Closure" ) => p < q

\* C1 amended: among the arguments the two passes go over (all of them, or
\* the first fn_inputs.len() of a C-variadic call) every check of a
\* non-closure precedes every check of a closure; the further arguments of a
\* C-variadic call are checked after both passes, in argument order.
C1_TwoPassesThenVariadicTail ==
    last.op = "check_argument_types" =>
        LET t == IF last.c_variadic THEN Len(last.fn_inputs)
                 ELSE Len(last.args)
        IN  \A p, q \in CheckPositions :
              /\ ( /\ trace[p].id <= t /\ trace[q].id <= t
                   /\ last.args[trace[p].id].kind # "Closure"
                   /\ last.args[trace[q].id].kind = "Closure" ) => p < q
              /\ (trace[p].id <= t /\ trace[q].id > t) => p < q
              /\ (t < trace[p].id /\ trace[p].id < trace[q].id) => p < q

C1_Witness ==
    /\ last.op = "check_argument_types" /\ ~aborted
    /\ last.c_variadic /\ Len(last.fn_inputs) = 2 /\ Len(last.args) = 3
    /\ last.args[1].kind = "Closure" /\ last.args[2].kind = "F32"
    /\ last.args[3].kind = "IntLit"
    /\ Cardinality(CheckPositions) = 3

\* C2: a call that is neither C-variadic nor tuple sugar, with N formals and
\* M # N arguments, emits exactly one arity diagnostic and type-checks each
\* of the M arguments, once, against the error type.
C2_ArityMismatchChecksAll ==
    ( /\ last.op = "check_argument_types"
      /\ ~last.c_variadic /\ last.tuple_arguments = "DontTupleArguments"
      /\ Len(last.fn_inputs) # Len(last.args) )
    => /\ ~aborted
       /\ Cardinality(ArityDiagPositions) = 1
       /\ \A i \in 1..Len(last.args) :
            /\ Cardinality({p \in CheckPositions : trace[p].id = i}) = 1
            /\ \A p \in CheckPositions : trace[p].id = i =>
                    trace[p].expected = [kind |-> "ExpectHasType", ty |-> "err"]
            /\ node_types[i] # NoTy

C2_Witness ==
    /\ last.op = "check_argument_types" /\ ~aborted
    /\ ~last.c_variadic /\ last.tuple_arguments = "DontTupleArguments"
    /\ Len(last.fn_inputs) = 2 /\ Len(last.args) = 3
    /\ \A i \in 1..3 : last.args[i].kind = "IntLit" /\ node_types[i] # NoTy
    /\ \E p \in 1..Len(trace) : trace[p].ev = "diag" /\ trace[p].code = "E0061"
\* C3: in a body not tainted by errors, fallback_if_possible on an
\* unconstrained integer variable binds it to i32, on an unconstrained float
\* variable to f64, and returns true, in either fallback mode.
C3_NumericFallback ==
    [][( /\ last'.op = "fallback_if_possible"
         /\ ~tainted_by_errors
         /\ var_value[last'.vid] = Unresolved
         /\ var_kind[last'.vid] \in {"IntVar", "FloatVar"} )
       => /\ last'.ret = TRUE
          /\ var_kind[last'.vid] = "IntVar" => var_value'[last'.vid] = "i32"
          /\ var_kind[last'.vid] = "FloatVar" => var_value'[last'.vid] = "f64"
      ]_vars

C3_Witness ==
    /\ last.op = "fallback_if_possible" /\ last.ret = TRUE
    /\ ~tainted_by_errors
    /\ var_kind[last.vid] = "IntVar" /\ var_value[last.vid] = "i32"
    /\ \E w \in Vars : var_kind[w] = "FloatVar" /\ var_value[w] = "f64"

\* C4: in a body tainted by errors, fallback_if_possible binds any unresolved
\* variable (integer, float, diverging, opaque placeholder or plain; either
\* mode) to the error type and returns true.
C4_TaintedFallback ==
    [][( /\ last'.op = "fallback_if_possible"
         /\ tainted_by_errors
         /\ var_value[last'.vid] = Unresolved )
       => /\ last'.ret = TRUE
          /\ var_value'[last'.vid] = "err"]_vars

C4_Witness ==
    /\ last.op = "fallback_if_possible" /\ last.ret = TRUE
    /\ tainted_by_errors
    /\ var_value[last.vid] = "err"
    /\ last.mode = "All"
    /\ var_kind[last.vid] = "TyVar" /\ last.vid \in var_diverges
    /\ opaque_types_vars[last.vid] # NoTy
    /\ \E a \in Vars : var_kind[a] = "IntVar" /\ var_value[a] = "err"

\* no error occurred in the body: nothing reported, nothing flagged
NoErrorOccurred ==
    /\ ~aborted /\ ~tainted_by_errors /\ ~has_errors
    /\ \A p \in 1..Len(trace) : trace[p].ev # "diag"
\* the nodes the claim C5 is about
C5_Visited ==
    CASE last.op = "check_argument_types" ->
            {last.args[i].id : i \in 1..Len(last.args)}
      [] last.op = "check_block" ->
            {last.blk.id}
            \cup {last.blk.stmts[k].local.id :
                    k \in {j \in 1..Len(last.blk.stmts) :
                             last.blk.stmts[j].kind = "Local"}}
            \cup {last.blk.stmts[k].local.pat_id :
                    k \in {j \in 1..Len(last.blk.stmts) :
                             last.blk.stmts[j].kind = "Local"}}
      [] OTHER -> {}
\* C5: after the check of a call or of a block completed and no error
\* occurred (no diagnostic, no error flag, no taint), a type is recorded,
\* so that node_ty succeeds without the tainted fallback, for every
\* supplied call argument, for the checked block, and for the local and the
\* pattern of every let statement of the block.
C5_ResultStoreTotal ==
    NoErrorOccurred => \A n \in C5_Visited : node_types[n] # "none"
C5_Witness ==
    /\ last.op = "check_block" /\ NoErrorOccurred
    /\ Len(last.blk.stmts) = 2
    /\ last.blk.stmts[1].kind = "Local" /\ last.blk.stmts[1].local.init.kind = "IntLit"
    /\ last.blk.stmts[2].kind = "Local" /\ last.blk.stmts[2].local.init.kind = "None"
    /\ last.blk.expr.kind = "None"
    /\ node_types[1] = "unit" /\ node_types[3] # "none" /\ node_types[4] # "none"
    /\ node_types[7] # "none" /\ node_types[8] # "none"

\* the nodes of a statement: the statement, its let and pattern, its expression
StmtNodes(stmt) ==
    {stmt.id, stmt.local.id, stmt.local.pat_id, stmt.expr.id,
     stmt.local.init.id} \ {0}
\* the positions of the trace at which unreachable code was warned about
LintPositions(ids) ==
    {p \in 1..Len(trace) : trace[p].ev = "lint_unreachable" /\ trace[p].id \in ids}
\* a block { s1; s2; tail } was checked and s1 left divergence at Always: the
\* expression of s1 (its initializer, if a let) has the type !
C11_Case ==
    /\ last.op = "check_block" /\ ~aborted
    /\ Len(last.blk.stmts) = 2 /\ last.blk.expr.kind # "None"
    /\ last.blk.stmts[1].kind # "Item"
    /\ \E n \in StmtNodes(last.blk.stmts[1]) : node_types[n] = "never"
\* the type of the tail expression coerced to the expected type: the expected
\* type when there is one, else the type of the tail (a diverging variable
\* for a tail of type !)
C11_TailCoerced ==
    IF last.expected.kind = "ExpectHasType" THEN last.ret = last.expected.ty
    ELSE \/ /\ node_types[last.blk.expr.id] # "never"
            /\ resolve_vars_if_possible(fcx, last.ret)
                 = resolve_vars_if_possible(fcx, node_types[last.blk.expr.id])
         \/ /\ node_types[last.blk.expr.id] = "never"
            /\ \E v \in Vars : last.ret = VarNames[v] /\ v \in var_diverges
                                /\ var_value[v] = "unresolved"
\* no type error was reported in the block, no node of it was given a type
\* that references an error, and no break left it
C11_NoErrorNoBreak ==
    /\ \A p \in 1..Len(trace) : trace[p].ev # "diag"
    /\ ~last.frame.has_errors
    /\ ~last.frame.may_break

C13_FrameOf(id) ==
    CHOOSE k \in 1..Len(breakable_frames) : breakable_frames[k].id = id
\* C13: with properly nested calls of with_breakable_ctxt and pairwise
\* distinct ids, the lookup by id maps every live id to the index of the
\* stack at which its context was pushed and no other id to anything; a
\* break to a target and the tail of a block, also after nested contexts
\* were pushed and popped, add one value to the accumulator of that target
\* and leave every other context of the stack as it was.
C13_TargetsByIdentity ==
    /\ Len(enclosing_breakables.stack) = Len(breakable_frames)
    /\ \A k \in 1..Len(breakable_frames) :
          /\ breakable_frames[k].index = k - 1
          /\ enclosing_breakables.by_id[breakable_frames[k].id] = k - 1
    /\ \A id \in Nodes :
          (\A k \in 1..Len(breakable_frames) : breakable_frames[k].id # id)
              => enclosing_breakables.by_id[id] = NoIndex
    /\ last.op \in {"break", "tail"} =>
          /\ ~aborted
          /\ \A k \in 1..Len(enclosing_breakables.stack) :
                IF k = C13_FrameOf(last.id)
                THEN /\ enclosing_breakables.stack[k].coerce.pushed
                            = last.before.stack[k].coerce.pushed + 1
                     /\ enclosing_breakables.stack[k].may_break
                            = (last.before.stack[k].may_break \/ last.op = "break")
                ELSE enclosing_breakables.stack[k] = last.before.stack[k]
C13_Witness ==
    /\ last.op = "tail" /\ ~aborted
    /\ Len(breakable_frames) = 2
    /\ breakable_frames[2].had_nested
    /\ enclosing_breakables.stack[1].may_break
    /\ enclosing_breakables.stack[1].coerce.pushed = 1
    /\ ~enclosing_breakables.stack[2].may_break
    /\ enclosing_breakables.stack[2].coerce.pushed = 1

C12_BodySetHasErrors ==
    \E n \in (UNION {StmtNodes(last.blk.stmts[k]) : k \in 1..Len(last.blk.stmts)}
                \cup {last.blk.expr.id}) \ {0} :
        node_types[n] \in {"err", "&err"}
\* C12: check_block_with_expected returns and records the error type if and
\* only if the statements or the tail of the block set the has-errors flag
\* or the type completed by the coercion accumulator references an error; in
\* every other case it returns and records the accumulator's type unchanged.
C12_ErrorTypeIffErrors ==
    (last.op = "check_block" /\ ~aborted) =>
        /\ last.frame.has_errors <=> C12_BodySetHasErrors
        /\ last.ret = "err" <=>
              (C12_BodySetHasErrors \/ last.frame.complete \in {"err", "&err"})
        /\ last.ret # "err" => last.ret = last.frame.complete
        /\ node_types[last.blk.id] = last.ret
C12_Witness ==
    /\ last.op = "check_block" /\ ~aborted
    /\ C12_BodySetHasErrors /\ last.frame.complete = "i32"
    /\ last.ret = "err" /\ node_types[last.blk.id] = "err"

\* a break out of the block is among the expressions of the block
C15_HasBreak ==
    \/ last.blk.expr.kind = "Break"
    \/ \E k \in 1..Len(last.blk.stmts) : last.blk.stmts[k].expr.kind = "Break"
\* C15: after check_block_with_expected, if the breakable context of the
\* block recorded a break (may_break), which it does exactly when a break
\* out of the block was checked, the divergence state is the one of block
\* entry (Maybe, the block being entered first); if not, it is the one the
\* statements and the tail left.
C15_BreakRestoresDiverges ==
    (last.op = "check_block" /\ ~aborted) =>
        /\ last.frame.may_break <=> C15_HasBreak
        /\ last.frame.may_break =>
              diverges = "Maybe" /\ diverges = last.frame.prev_diverges
        /\ ~last.frame.may_break => diverges = last.frame.body_diverges
C15_Witness ==
    /\ last.op = "check_block" /\ ~aborted
    /\ C15_HasBreak /\ last.frame.may_break
    /\ last.frame.body_diverges = "Always" /\ diverges = "Maybe"

\* the spans suggested for removal by the diagnostics of the block
C16_Suggested ==
    {trace[p].remove_semicolon :
        p \in {q \in 1..Len(trace) :
                 /\ trace[q].ev = "diag"
                 /\ "remove_semicolon" \in DOMAIN trace[q]
                 /\ trace[q].remove_semicolon # [lo |-> 0, hi |-> 0]}}
\* a block without a tail that does not diverge, with a known expected type
C16_Case ==
    /\ last.op = "check_block" /\ ~aborted
    /\ last.blk.expr.kind = "None"
    /\ last.frame.body_diverges = "Maybe"
    /\ last.expected.kind = "ExpectHasType"
\* the last statement is `e;`, the type of e is not the error type and is a
\* subtype of the expected type
C16_LastFits ==
    /\ last.blk.stmts # <<>>
    /\ last.blk.stmts[Len(last.blk.stmts)].kind = "Semi"
    /\ node_types[last.blk.stmts[Len(last.blk.stmts)].expr.id] # "err"
    /\ can_sub(fcx, node_types[last.blk.stmts[Len(last.blk.stmts)].expr.id],
               last.expected.ty)
\* the last byte of the last statement
C16_SemiSpan ==
    [lo |-> last.blk.stmts[Len(last.blk.stmts)].span.hi - 1,
     hi |-> last.blk.stmts[Len(last.blk.stmts)].span.hi]
\* the implicit unit result of the block did not coerce to the expected type
C16_UnitMismatch ==
    \E p \in 1..Len(trace) :
        trace[p].ev = "diag" /\ trace[p].code = "E0308" /\ trace[p].id = last.blk.id
\* C16 as stated: for a block without a tail that does not diverge and has a
\* known expected type, removing the separator is suggested exactly when the
\* last statement is `e;` with the type of e not an error and a subtype of
\* the expected type; the span is the last byte of that statement.
C16_AsStated ==
    C16_Case =>
        IF C16_LastFits THEN C16_Suggested = {C16_SemiSpan}
        ELSE C16_Suggested = {}
\* C16 amended: for such a block, removing the separator is suggested exactly
\* when the unit type does not coerce to the expected type (the mismatch is
\* reported for the block) and the last statement is `e;` with the type of e
\* not an error and a subtype of the expected type; the span is the last
\* byte of that statement, and nothing is suggested otherwise.
C16_SemicolonHint ==
    C16_Case =>
        IF C16_UnitMismatch /\ C16_LastFits
        THEN C16_Suggested = {C16_SemiSpan}
        ELSE C16_Suggested = {}
C16_Witness ==
    /\ C16_Case /\ C16_UnitMismatch /\ C16_LastFits
    /\ Len(last.blk.stmts) = 2
    /\ last.blk.stmts[2].expr.kind = "IntLit" /\ last.expected.ty = "i32"
    /\ C16_Suggested = {[lo |-> 41, hi |-> 42]}

\* the call foo(1, 2, 3) of a function of two parameters, not C-variadic
C17_Call ==
    /\ last.op = "fallback" /\ ~aborted
    /\ ~last.call.c_variadic /\ last.call.tuple_arguments = "DontTupleArguments"
    /\ Len(last.call.fn_inputs) = 2 /\ Len(last.call.args) = 3
    /\ \A i \in 1..3 : last.call.args[i].kind = "IntLit"
C18_Case ==
    /\ last.op = "check_argument_types" /\ ~aborted
    /\ last.c_variadic /\ Len(last.args) >= Len(last.fn_inputs)
\* the arguments beyond the declared ones
C18_Extra == {i \in 1..Len(last.args) : i > Len(last.fn_inputs)}
\* the diagnostics asking for an explicit cast of argument i
C18_CastDiags(i) ==
    {p \in 1..Len(trace) :
        trace[p].ev = "diag" /\ trace[p].code = "E0617" /\ trace[p].id = i}
\* no arity diagnostic, and every further argument is checked once, with no
\* expected type
C18_CheckedWithoutFormal ==
    /\ ArityDiagPositions = {}
    /\ \A i \in C18_Extra :
          /\ Cardinality({p \in CheckPositions : trace[p].id = i}) = 1
          /\ \A p \in CheckPositions : trace[p].id = i =>
                trace[p].expected = [kind |-> "NoExpectation", ty |-> "none"]
\* the primitive kinds: numbers and their inference variables, bool, unit,
\* never, pointers and functions
C18_PrimitiveKinds ==
    IntTys \cup UintTys \cup FloatTys \cup PtrLikeTys \cup InferTys
        \cup {"bool", "unit", "never"}
\* C18 as stated, with every primitive kind taken to be in the whitelist:
\* in such a call no arity diagnostic is emitted, the further arguments are
\* checked with no expected type, and each of them whose type is not in the
\* whitelist receives a diagnostic.
C18_AsStated ==
    C18_Case =>
        /\ C18_CheckedWithoutFormal
        /\ \A i \in C18_Extra :
              node_types[i] \notin C18_PrimitiveKinds => C18_CastDiags(i) # {}
\* C18 amended: in such a call no arity diagnostic is emitted, the further
\* arguments are checked with no expected type, and a further argument
\* receives a diagnostic, one, asking for an explicit cast, exactly when its
\* type is one that C promotes implicitly: f32, i8, i16, bool, u8, u16 or a
\* function item; an argument of any other type receives none.
C18_VariadicPromotedKindsRejected ==
    C18_Case =>
        /\ C18_CheckedWithoutFormal
        /\ \A i \in C18_Extra :
              IF node_types[i] \in {"f32", "i8", "i16", "bool", "u8", "u16", "FnDef"}
              THEN Cardinality(C18_CastDiags(i)) = 1
              ELSE C18_CastDiags(i) = {}
C18_Witness ==
    /\ C18_Case
    /\ Len(last.fn_inputs) = 1 /\ Len(last.args) = 3
    /\ last.args[2].kind = "F32" /\ last.args[3].kind = "Closure"
    /\ \E p \in C18_CastDiags(2) : trace[p].cast_ty = "c_double"
    /\ C18_CastDiags(3) = {}

\* the positions of the trace at which a bound violation was reported
C19_BoundDiagPositions ==
    {p \in 1..Len(trace) : trace[p].ev = "diag" /\ trace[p].code = "E0277"}
\* the final pass has begun before position p of the trace
C19_InFinalPass(p) ==
    \E q \in 1..(p - 1) : trace[q].ev = "select_all_or_error"
\* C19 as stated: no bound violation is reported before the final pass
\* select_all_obligations_or_error.
C19_AsStated ==
    \A p \in C19_BoundDiagPositions : C19_InFinalPass(p)
\* C19 amended: before the final pass a bound violation is reported only by a
\* partial solve and only for an obligation the engine finds to fail, once;
\* an obligation the engine cannot decide is not reported before the final
\* pass and stays pending until then.
C19_OnlyDecidedFailuresBeforeFinalPass ==
    /\ \A p \in C19_BoundDiagPositions :
          ~C19_InFinalPass(p) =>
              /\ trace[p].obligation.verdict = "fails"
              /\ \E q \in 1..(p - 1) :
                    /\ trace[q].ev = "select_where_possible"
                    /\ \A k \in (q + 1)..p : k \in C19_BoundDiagPositions
              /\ \A q \in C19_BoundDiagPositions :
                    trace[q].obligation = trace[p].obligation => q = p
    /\ \A r \in 1..Len(trace) :
          ( /\ trace[r].ev = "register_predicate"
            /\ trace[r].obligation.verdict = "ambiguous"
            /\ ~C19_InFinalPass(Len(trace) + 1) )
          => \E k \in 1..Len(fulfillment_cx) :
                fulfillment_cx[k] = trace[r].obligation
C19_Witness ==
    /\ last.op = "check_argument_types" /\ ~aborted
    /\ Len(last.args) = 2
    /\ \E p \in C19_BoundDiagPositions :
          /\ trace[p].obligation.verdict = "fails"
          /\ trace[p - 1].ev = "select_where_possible"
          /\ \E q \in 1..(p - 1) : trace[q].ev = "check_expr"
          /\ \E q \in (p + 1)..Len(trace) : trace[q].ev = "check_expr"
    /\ \E k \in 1..Len(fulfillment_cx) : fulfillment_cx[k].verdict = "ambiguous"

\* a call of resolve_ty_and_res_ufcs on a type-relative path has returned
C20_Case ==
    /\ last.op = "resolve_ty_and_res_ufcs" /\ ~aborted
    /\ last.qpath.kind = "TypeRelative"
\* what the call ran and reported: the events after those of to_ty
C20_Ran ==
    {trace[p].ev : p \in (last.before + 1)..Len(trace)} \ {"register_wf"}
\* a later call for the node returns the outcome recorded and neither
\* resolves again nor reports
C20_LaterCallCached ==
    last.cached # "none" =>
        /\ type_dependent_defs[last.hir_id] = last.cached
        /\ last.ret.res = (IF last.cached = "Def" THEN "Def" ELSE "Err")
        /\ C20_Ran = {}
\* C20 as stated: the call leaves an entry for the node, the definition if
\* the resolution succeeded and the error marker if it failed, and a later
\* call for the node returns the recorded outcome without resolving again
\* and without another diagnostic.
C20_AsStated ==
    C20_Case =>
        /\ type_dependent_defs[last.hir_id] \in {"Def", "ErrorReported"}
        /\ last.cached = "none" =>
              /\ "resolve_ufcs" \in C20_Ran
              /\ type_dependent_defs[last.hir_id] =
                    (IF last.ufcs.result = "Ok" THEN "Def" ELSE "ErrorReported")
        /\ C20_LaterCallCached
\* C20 amended: the call leaves an entry for the node, never nothing: the
\* definition if the resolution succeeded or failed only because the item
\* found is private, the error marker on every other failure; the result
\* returned is the definition or the error accordingly, and a later call for
\* the node returns the recorded outcome without resolving again and
\* without another diagnostic.
C20_ResolutionAlwaysRecorded ==
    C20_Case =>
        /\ type_dependent_defs[last.hir_id] \in {"Def", "ErrorReported"}
        /\ last.cached = "none" =>
              /\ "resolve_ufcs" \in C20_Ran
              /\ type_dependent_defs[last.hir_id] =
                    (IF last.ufcs.result \in {"Ok", "PrivateMatch"}
                     THEN "Def" ELSE "ErrorReported")
              /\ last.ret.res =
                    (IF last.ufcs.result \in {"Ok", "PrivateMatch"}
                     THEN "Def" ELSE "Err")
        /\ C20_LaterCallCached
C20_Witness ==
    /\ C20_Case
    /\ last.cached = "ErrorReported" /\ last.ufcs.result = "NoMatch"
    /\ last.ufcs.reported /\ ~last.qpath.invalid_name
    /\ last.ret.res = "Err"
    /\ Cardinality({p \in 1..Len(trace) :
            trace[p].ev = "diag" /\ trace[p].id = last.hir_id}) = 1
    /\ Cardinality({p \in 1..Len(trace) :
            trace[p].ev = "resolve_ufcs" /\ trace[p].id = last.hir_id}) = 1

\* C21: across the operations of the checker, once a type is recorded for a
\* node, a later write of a type to the node records the same type or a type
\* that references an error: no recorded type is replaced by a different
\* type that is free of errors.
C21_WriteOnceOrDowngrade ==
    ~retyped

\* C6: node_ty(id) returns the recorded type when one was written; when none
\* was written it returns the error type in a tainted body and aborts with a
\* bug! otherwise; it changes neither the Result Store nor the flags.
C6_NodeTyContract ==
    [][last'.op = "node_ty" =>
        LET id == last'.id
        IN  /\ node_types[id] # NoTy =>
                last'.ret = node_types[id] /\ ~aborted'
            /\ node_types[id] = NoTy /\ tainted_by_errors =>
                last'.ret = "err" /\ ~aborted'
            /\ node_types[id] = NoTy /\ ~tainted_by_errors => aborted'
            /\ node_types' = node_types
            /\ tainted_by_errors' = tainted_by_errors
            /\ has_errors' = has_errors]_vars

C6_Witness ==
    /\ last.op = "node_ty"
    /\ node_types[last.id] = NoTy
    /\ tainted_by_errors /\ ~aborted
    /\ last.ret = "err"
    /\ \E n \in Nodes : node_types[n] \notin {NoTy, "err", "&err"}

\* C7: after write_ty(id, ty) the store maps id to ty; a type that references
\* an error sets tainted_by_errors and has_errors, any other type leaves both
\* flags as they were.
C7_WriteTyContract ==
    [][last'.op = "write_ty" =>
        LET ty == last'.ty
        IN  /\ node_types'[last'.id] = ty
            /\ \A n \in Nodes \ {last'.id} : node_types'[n] = node_types[n]
            /\ ty \in {"err", "&err"} => tainted_by_errors' /\ has_errors'
            /\ ty \notin {"err", "&err"} =>
                /\ tainted_by_errors' = tainted_by_errors
                /\ has_errors' = has_errors]_vars

C7_Witness ==
    /\ last.op = "write_ty" /\ last.ty = "&err"
    /\ node_types[last.id] = "&err"
    /\ tainted_by_errors /\ has_errors

\* C8: once the chain recorded for an expression is exactly [NeverToAny],
\* every further apply_adjustments leaves it [NeverToAny] and does not abort.
C8_NeverToAnyAbsorbs ==
    [][\A e \in AdjExprs :
        adjustments[e] = [occupied |-> TRUE, chain |-> <<"NeverToAny">>] =>
            /\ adjustments'[e] = adjustments[e]
            /\ ~aborted']_vars

C8_Witness ==
    /\ last.op = "apply_adjustments"
    /\ last.prev = [occupied |-> TRUE, chain |-> <<"NeverToAny">>]
    /\ last.adj = <<"Deref", "BorrowRefMut">>
    /\ adjustments[last.expr].chain = <<"NeverToAny">>

\* C9 as stated: a new dereference+borrow chain applied to an expression whose
\* recorded chain is a dereference is accepted and collapsed into one chain.
C9_DerefBorrowOntoDeref ==
    ( /\ last.op = "apply_adjustments"
      /\ last.prev.occupied
      /\ last.prev.chain # <<>>
      /\ \A i \in 1..Len(last.prev.chain) : last.prev.chain[i] = "Deref"
      /\ Len(last.adj) = 2 /\ last.adj[1] = "Deref"
      /\ last.adj[2] \in {"BorrowRef", "BorrowRefMut"} )
    => /\ ~aborted
       /\ adjustments[last.expr].occupied

\* C9 amended: a new chain that starts with a dereference, applied to an
\* expression whose recorded chain is exactly [Deref, Borrow(Ref)], is
\* accepted and replaces the recorded chain.
C9_DerefOntoReborrow ==
    ( /\ last.op = "apply_adjustments"
      /\ last.prev.occupied
      /\ Len(last.prev.chain) = 2 /\ last.prev.chain[1] = "Deref"
      /\ last.prev.chain[2] \in {"BorrowRef", "BorrowRefMut"}
      /\ Len(last.adj) >= 1 /\ last.adj[1] = "Deref" )
    => /\ ~aborted
       /\ adjustments[last.expr] = [occupied |-> TRUE, chain |-> last.adj]

C9_Witness ==
    /\ last.op = "apply_adjustments"
    /\ last.prev = [occupied |-> TRUE, chain |-> <<"Deref", "BorrowRef">>]
    /\ last.adj = <<"Deref", "Deref">>
    /\ adjustments[last.expr].chain = <<"Deref", "Deref">>
    /\ ~aborted

\* C10: a non-empty chain applied to an expression that has a recorded chain,
\* in any shape other than the two accepted ones, aborts with a bug! and the
\* recorded chain stays as it was.
C10_OtherCompositionsAbort ==
    ( /\ last.op = "apply_adjustments"
      /\ last.adj # <<>>
      /\ last.prev.occupied
      /\ last.prev.chain # <<"NeverToAny">>
      /\ ~ ( /\ Len(last.prev.chain) = 2 /\ last.prev.chain[1] = "Deref"
             /\ last.prev.chain[2] \in {"BorrowRef", "BorrowRefMut"}
             /\ last.adj[1] = "Deref" ) )
    => /\ aborted
       /\ adjustments[last.expr] = last.prev

C10_Witness ==
    /\ last.op = "apply_adjustments"
    /\ last.prev = [occupied |-> TRUE, chain |-> <<"Deref">>]
    /\ last.adj = <<"BorrowRef">>
    /\ aborted
    /\ adjustments[last.expr].chain = <<"Deref">>

\* a let statement was checked by check_stmt, which returned
C22_Case ==
    /\ last.op = "check_stmt" /\ ~aborted
    /\ last.stmt.kind = "Local"
\* the type of the initializer, or of the pattern, references an error
C22_InitOrPatErr ==
    \/ /\ last.stmt.local.init # NoExpr
       /\ references_error(node_types[last.stmt.local.init.id])
    \/ last.stmt.local.pat = "Mismatch"

\* C22: check_decl_local never changes the declared type of a local binding.
\* When the type of the initializer or of the pattern references an error,
\* the revealed type of the binding becomes the error type, for the local and
\* for its pattern node, and the recorded types of both nodes are the error
\* type; when neither references an error, the Local Binding Table is left
\* unchanged.
C22_DeclLocal ==
    C22_Case =>
        /\ \A n \in {last.stmt.local.id, last.stmt.local.pat_id} :
              locals[n].decl_ty = last.before.locals[n].decl_ty
        /\ C22_InitOrPatErr =>
              \A n \in {last.stmt.local.id, last.stmt.local.pat_id} :
                  /\ locals[n].revealed_ty = ty_error
                  /\ node_types[n] = ty_error
        /\ ~C22_InitOrPatErr => locals = last.before.locals

\* the context check_stmt saved the outer values from: the one it was called
\* in, after the warning about unreachable code
C23_Saved ==
    warn_if_unreachable(last.before, last.stmt.id, "statement")
\* the statement's own result: the context its check leaves when it starts
\* with divergence Maybe and has_errors false
C23_Own ==
    check_stmt([C23_Saved EXCEPT !.diverges = "Maybe", !.has_errors = FALSE],
               last.stmt)

\* C23: for a statement that is not an item, check_stmt leaves divergence at
\* the maximum (Maybe < Always < WarnedAlways) of the statement's own
\* result, checked from divergence Maybe and has_errors false, and the saved
\* outer value, and has_errors at the disjunction of the two, so neither
\* decreases across check_stmt; for an item statement check_stmt changes no
\* state and emits no warning.
C23_StmtJoinsOuter ==
    (last.op = "check_stmt" /\ ~aborted) =>
        IF last.stmt.kind = "Item" THEN fcx = last.before
        ELSE /\ diverges = diverges_or(C23_Own.diverges, C23_Saved.diverges)
             /\ has_errors = (C23_Own.has_errors \/ C23_Saved.has_errors)
             /\ DivergesRank(diverges) >= DivergesRank(last.before.diverges)
             /\ last.before.has_errors => has_errors
C23_Witness ==
    /\ last.op = "check_stmt" /\ ~aborted
    /\ last.stmt.kind = "Semi" /\ last.stmt.expr.kind = "Return"
    /\ last.before.has_errors /\ last.before.diverges = "Maybe"
    /\ ~C23_Own.has_errors /\ C23_Own.diverges = "Always"
    /\ has_errors /\ diverges = "Always"

\* C24: in a body not tainted by errors, for an unresolved variable that is
\* neither an integer nor a float variable, fallback_if_possible binds the
\* variable to the diverging default when it is marked diverging, also when
\* it is an opaque-type placeholder; otherwise to the opaque type when the
\* mode is All and the variable is an opaque-type placeholder; otherwise it
\* returns false and unifies nothing, so the variable stays unresolved.
C24_NonNumericFallback ==
    [][( /\ last'.op = "fallback_if_possible"
         /\ ~tainted_by_errors
         /\ var_value[last'.vid] = Unresolved
         /\ var_kind[last'.vid] = "TyVar" )
       => IF last'.vid \in var_diverges
          THEN /\ last'.ret = TRUE
               /\ var_value'[last'.vid]
                    = (IF never_type_fallback THEN "never" ELSE "unit")
          ELSE IF last'.mode = "All" /\ opaque_types_vars[last'.vid] # NoTy
          THEN /\ last'.ret = TRUE
               /\ var_value'[last'.vid] = opaque_types_vars[last'.vid]
          ELSE /\ last'.ret = FALSE
               /\ var_value' = var_value
      ]_vars
C24_Witness ==
    /\ last.op = "fallback_if_possible" /\ last.ret = TRUE
    /\ ~tainted_by_errors /\ last.mode = "All"
    /\ var_kind[last.vid] = "TyVar" /\ last.vid \in var_diverges
    /\ opaque_types_vars[last.vid] # NoTy
    /\ var_value[last.vid] \in {"never", "unit"}
    /\ \E w \in Vars : /\ var_kind[w] = "TyVar" /\ w \notin var_diverges
                       /\ var_value[w] = OpaqueTy

\* structurally_resolved_type was applied to a type variable nothing was
\* unified with
C25_Case ==
    /\ last.op = "structurally_resolved_type" /\ ~aborted
    /\ is_ty_var(last.before, last.ty)
    /\ last.before.var_value[vid(last.ty)] = Unresolved
\* the positions of the trace at which the call reported E0282
C25_Reported ==
    {p \in (Len(last.before.trace) + 1)..Len(trace) :
        trace[p].ev = "diag" /\ trace[p].code = "E0282"}

\* C25: structurally_resolved_type applied to a type that is still an
\* unresolved type variable unifies the variable with the error type and
\* returns the error type; it reports that the type must be known (E0282) if
\* and only if the body is not tainted by errors.
C25_UnresolvedBecomesError ==
    C25_Case =>
        /\ last.ret = ty_error
        /\ var_value[vid(last.ty)] = ty_error
        /\ (C25_Reported # {}) <=> ~last.before.tainted_by_errors
C25_Witness ==
    /\ C25_Case /\ last.before.tainted_by_errors
    /\ last.ret = ty_error /\ C25_Reported = {}
    /\ \E p \in 1..Len(last.before.trace) :
          trace[p].ev = "diag" /\ trace[p].code = "E0282"

\* the positions of the trace at which unreachable code was warned about, and
\* those at which the divergence state became Always
C26_Lints(tr) == {p \in 1..Len(tr) : tr[p].ev = "lint_unreachable"}
C26_Origins(tr) ==
    {p \in 1..Len(tr) : tr[p].ev = "diverges" /\ tr[p].now = "Always"}
\* a step that warns starts in Always and moves the state to WarnedAlways
\* (check_stmt hides it at once: it is the value saved); a call of
\* warn_if_unreachable in Maybe or WarnedAlways changes nothing
C26_Step ==
    /\ C26_Lints(trace') # C26_Lints(trace) =>
          /\ diverges = "Always"
          /\ Cardinality(C26_Lints(trace')) = Cardinality(C26_Lints(trace)) + 1
          /\ IF last'.op = "check_stmt_enter"
             THEN last'.saved[Len(last'.saved)].diverges = "WarnedAlways"
             ELSE diverges' = "WarnedAlways"
    /\ (last'.op = "warn_if_unreachable" /\ diverges # "Always") =>
          fcx' = fcx

\* C26: warn_if_unreachable warns about unreachable code only when the
\* divergence state is Always, and the warning moves the state to
\* WarnedAlways, so that between two warnings the state was set to Always
\* again; in the states Maybe and WarnedAlways it warns about nothing and
\* leaves the state unchanged.
C26_OneWarningPerOrigin ==
    /\ [][C26_Step]_vars
    /\ [](\A p, q \in C26_Lints(trace) :
            p < q => \E r \in C26_Origins(trace) : p < r /\ r < q)
C26_Witness ==
    /\ Cardinality(C26_Lints(trace)) = 2
    /\ last.op = "warn_if_unreachable" /\ diverges = "WarnedAlways"
    /\ trace[Len(trace)].ev = "lint_unreachable"

\* the items of the events of one kind, in the order of the trace
C27_Items(ev) ==
    LET evs == SelectSeq(trace, LAMBDA e : e.ev = ev)
    IN  [k \in 1..Len(evs) |-> evs[k].item]
\* the call resolutions recorded for a closure, and those handed out for it,
\* in the order of the trace
C27_Recorded(closure) ==
    LET evs == SelectSeq(trace, LAMBDA e :
                   e.ev = "defer_call" /\ e.closure = closure)
    IN  [k \in 1..Len(evs) |-> evs[k].item]
RECURSIVE C27_Concat(_, _)
C27_Concat(evs, k) ==
    IF k > Len(evs) THEN <<>> ELSE evs[k].ret \o C27_Concat(evs, k + 1)
C27_Removed(closure) ==
    C27_Concat(SelectSeq(trace, LAMBDA e :
                   e.ev = "removed_call_resolutions" /\ e.closure = closure), 1)

\* C27: every deferred work item is handed to its drain exactly once.
\* check_casts checks each deferred cast once, in the order deferred, and
\* leaves the queue of casts empty; resolve_generator_interiors does the same
\* for the generator interiors; remove_deferred_call_resolutions(c) returns
\* the resolutions recorded for the closure c, in the order recorded, and
\* removes them, so that a second call for c returns the empty list.
C27_DrainedExactlyOnce ==
    /\ C27_Items("cast_check") \o deferred_cast_checks = C27_Items("defer_cast")
    /\ C27_Items("resolve_interior") \o deferred_generator_interiors
         = C27_Items("defer_interior")
    /\ \A closure \in ClosureIds :
          C27_Removed(closure) \o deferred_call_resolutions[closure]
            = C27_Recorded(closure)
    /\ last.op = "check_casts" =>
          /\ deferred_cast_checks = <<>>
          /\ SubSeq(C27_Items("cast_check"),
                    Len(C27_Items("cast_check")) - Len(last.queue) + 1,
                    Len(C27_Items("cast_check"))) = last.queue
    /\ last.op = "resolve_generator_interiors" =>
          deferred_generator_interiors = <<>>
    /\ last.op = "remove_deferred_call_resolutions" =>
          /\ last.ret = last.queue
          /\ deferred_call_resolutions[last.closure] = <<>>
C27_Witness ==
    /\ last.op = "remove_deferred_call_resolutions"
    /\ last.ret = <<1, 3>>
    /\ C27_Items("cast_check") = <<2>>
    /\ deferred_call_resolutions[last.closure] = <<>>

\* C28: in every reachable state of the check of a body, has_errors set
\* implies that the body is tainted by errors, and the taint, once set, is
\* never cleared: check_stmt clears and restores has_errors only.
C28_ErrorsImplyTaint ==
    /\ [](has_errors => tainted_by_errors)
    /\ [][tainted_by_errors => tainted_by_errors']_vars
C28_Witness ==
    /\ last.op = "check_stmt" /\ ~aborted
    /\ last.before.has_errors /\ last.before.tainted_by_errors
    /\ last.stmt.kind = "Semi" /\ node_types[last.stmt.expr.id] = "unit"
    /\ has_errors /\ tainted_by_errors

\* the positions of the trace at which argument i was type-checked
C29_ChecksOf(i) == {p \in CheckPositions : trace[p].id = i}
\* position p comes after the selection of obligations that opens the second
\* pass (the pass of the closures)
C29_AfterFirstPass(p) ==
    \E q \in 1..(p - 1) : trace[q].ev = "select_where_possible"

C30_Tys ==
    formal_and_expected_tys(fcx, CallId, last.fn_inputs, last.expected_arg_tys,
                            last.args, last.c_variadic, last.tuple_arguments)
C30_Prefix ==
    checked_prefix(last.c_variadic, last.tuple_arguments, Len(last.fn_inputs),
                   IF last.tuple_arguments = "DontTupleArguments"
                   THEN Len(last.args) ELSE 1,
                   Len(last.args))

====
